---- MODULE Spec2Model ----
(***************************************************************************)
(* A model of src/ccutil/genericvector.h: the value container             *)
(* GenericVector<T>, the owning container PointerVector<T>, their binary  *)
(* serialization and the randomized selection choose_nth_item.            *)
(*                                                                         *)
(* C++ indices are 0-based and are kept 0-based in every operator that     *)
(* models code; At(d, i) is data()[i].                                     *)
(***************************************************************************)
EXTENDS Integers, Sequences, FiniteSets, TLC

VARIABLES
    \* ---- choose_nth_item (selection) ----
    sdata,          \* the vector's elements while choose_nth_item runs
    target_index,   \* argument of the running (recursive) call
    start,          \* argument of the running (recursive) call
    end,            \* argument of the running (recursive) call
    spc,            \* "call" | "rec" | "done"
    sret,           \* the returned index
    sin,            \* the inputs: [data, k]
    depth,          \* number of recursive invocations made so far
    \* ---- the build ----
    ndebug,         \* TRUE iff compiled with NDEBUG (assert() compiled out)
    \* ---- value container GenericVector<T> ----
    vdata,          \* the elements
    compare_cb_,    \* "nullptr" | "cmp_eq"
    vlast,          \* the last operation: [op, arg, pre, ret, outcome]
    vhalted,        \* TRUE once an assertion has aborted the program
    \* ---- owning container PointerVector<T> ----
    heap,           \* every T allocated so far; the address is the index
    vec,            \* the slots of the PointerVectors A and B (0 is nullptr)
    alive,          \* which of A and B are constructed and not yet destroyed
    olast,          \* the last operation and its arguments
    ohalted,        \* TRUE once the program has crashed
    \* ---- serialization ----
    iocfg,          \* the inputs of the run: entry points, swap, memory, ...
    gx,             \* the vector that is serialized (values, or addresses of heap)
    gy,             \* the vector that is deserialized into
    stream,         \* the bytes of the file
    iopc,           \* "serialize" | "deserialize" | "read" | "done"
    iores,          \* what the full read returned and where it left the file
    skipres         \* what the skipping read returned and where it left the file

selVars == <<sdata, target_index, start, end, spc, sret, sin, depth>>
valVars == <<vdata, compare_cb_, vlast, vhalted>>
ownVars == <<heap, vec, alive, olast, ohalted>>
ioVars == <<iocfg, gx, gy, stream, iopc, iores, skipres>>

vars == <<selVars, ndebug, valVars, ownVars, ioVars>>

(***************************************************************************)
(* Helpers shared by all parts.                                            *)
(***************************************************************************)
Min(a, b) == IF a < b THEN a ELSE b

\* data()[i], 0-based
At(d, i) == d[i + 1]

\* All sequences over S of length 0..n
SeqsUpTo(S, n) == UNION {[1..m -> S] : m \in 0..n}

(***************************************************************************)
(* The values the variables of a part hold while another part is checked.  *)
(***************************************************************************)
NoOp == [op |-> "none"]

SelIdle ==
    /\ sdata = <<>> /\ target_index = 0 /\ start = 0 /\ end = 0
    /\ spc = "idle" /\ sret = -1 /\ sin = [data |-> <<>>, k |-> 0] /\ depth = 0

ValIdle ==
    /\ vdata = <<>> /\ compare_cb_ = "nullptr" /\ vlast = NoOp /\ vhalted = FALSE

OwnIdle ==
    /\ heap = <<>> /\ vec = [c \in {"A", "B"} |-> <<>>]
    /\ alive = [c \in {"A", "B"} |-> FALSE] /\ olast = NoOp /\ ohalted = FALSE

IoIdle ==
    /\ iocfg = NoOp /\ gx = <<>> /\ gy = <<>> /\ stream = <<>>
    /\ iopc = "idle" /\ iores = NoOp /\ skipres = NoOp

(***************************************************************************)
(* Selection: choose_nth_item                                              *)
(***************************************************************************)
MaxSelLen == 4
MaxSelVal == 3

SelValues == 1..MaxSelVal

\* GenericVector::swap(index1, index2)
Swap(d, index1, index2) ==
    IF index1 # index2
    THEN [d EXCEPT ![index1 + 1] = d[index2 + 1], ![index2 + 1] = d[index1 + 1]]
    ELSE d

\* The partition loop with the scan cursor advanced after a swap from the
\* greater zone (the swapped-in element is never examined).
RECURSIVE PartitionLoop_SkipsSwapped(_, _, _, _)
PartitionLoop_SkipsSwapped(d, next_lesser, prev_greater, next_sample) ==
    IF ~(next_sample < prev_greater)
    THEN [data |-> d, next_lesser |-> next_lesser, prev_greater |-> prev_greater]
    ELSE IF At(d, next_sample) < At(d, next_lesser)
         THEN PartitionLoop_SkipsSwapped(Swap(d, next_lesser, next_sample),
                            next_lesser + 1, prev_greater, next_sample + 1)
         ELSE IF At(d, next_sample) = At(d, next_lesser)
              THEN PartitionLoop_SkipsSwapped(d, next_lesser, prev_greater,
                                              next_sample + 1)
              ELSE PartitionLoop_SkipsSwapped(Swap(d, prev_greater - 1, next_sample),
                                 next_lesser, prev_greater - 1, next_sample + 1)

\* The partition loop of the recursive choose_nth_item: one iteration per
\* unfolding; returns the vector and the two zone boundaries.
RECURSIVE PartitionLoop(_, _, _, _)
PartitionLoop(d, next_lesser, prev_greater, next_sample) ==
    IF ~(next_sample < prev_greater)
    THEN [data |-> d, next_lesser |-> next_lesser, prev_greater |-> prev_greater]
    ELSE IF At(d, next_sample) < At(d, next_lesser)
         THEN PartitionLoop(Swap(d, next_lesser, next_sample),
                            next_lesser + 1, prev_greater, next_sample + 1)
         ELSE IF At(d, next_sample) = At(d, next_lesser)
              THEN PartitionLoop(d, next_lesser, prev_greater, next_sample + 1)
              ELSE PartitionLoop(Swap(d, prev_greater - 1, next_sample),
                                 next_lesser, prev_greater - 1, next_sample)

\* Pivot placed at start, then the partition loop.
Partition(d, s, e, pivot) ==
    PartitionLoop(Swap(d, pivot, s), s, e, s + 1)

\* The two-element base case with equal elements answered by the target's
\* own position.
TwoElementCase_TieFollowsTarget(d, t, s) ==
    IF At(d, s) = At(d, s + 1)
    THEN (IF t > s THEN s + 1 ELSE s)
    ELSE IF At(d, s) < At(d, s + 1)
    THEN (IF t > s THEN s + 1 ELSE s)
    ELSE (IF t > s THEN s ELSE s + 1)

\* The two-element base case of the recursive choose_nth_item.
TwoElementCase(d, t, s) ==
    IF At(d, s) < At(d, s + 1)
    THEN (IF t > s THEN s + 1 ELSE s)
    ELSE (IF t > s THEN s ELSE s + 1)

\* The clamp of the public choose_nth_item(int).
ClampTarget(t, size) ==
    IF t < 0 THEN 0 ELSE IF t >= size THEN size - 1 ELSE t

\* What the selection leaves alone.
SelFrame == UNCHANGED <<ndebug, valVars, ownVars, ioVars>>

SelInit ==
    /\ sin \in {[data |-> d, k |-> k] :
                    d \in SeqsUpTo(SelValues, MaxSelLen), k \in -1..MaxSelLen}
    /\ sin.k <= Len(sin.data)
    /\ sdata = sin.data
    /\ target_index = sin.k
    /\ start = 0
    /\ end = 0
    /\ spc = "call"
    /\ sret = -1
    /\ depth = 0

\* int choose_nth_item(int target_index): clamp, seed, first recursive call.
choose_nth_item ==
    /\ spc = "call"
    /\ target_index' = ClampTarget(target_index, Len(sdata))
    /\ start' = 0
    /\ end' = Len(sdata)
    /\ spc' = "rec"
    /\ UNCHANGED <<sdata, sret, sin, depth>>
    /\ SelFrame

\* One invocation of choose_nth_item(target_index, start, end, seed) that
\* returns without recursing: a trivial range.
choose_nth_item_trivial ==
    /\ spc = "rec"
    /\ end - start <= 2
    /\ sret' = IF end - start <= 1 THEN start
               ELSE TwoElementCase(sdata, target_index, start)
    /\ spc' = "done"
    /\ depth' = depth + 1
    /\ UNCHANGED <<sdata, target_index, start, end, sin>>
    /\ SelFrame

\* One invocation that partitions around a pivot drawn by rand_r and then
\* returns (target in the equal bracket) or recurses on one side.
choose_nth_item_partition ==
    /\ spc = "rec"
    /\ end - start > 2
    /\ \E r \in 0..(end - start - 1) :
         LET pivot == r + start
             p == Partition(sdata, start, end, pivot)
         IN /\ sdata' = p.data
            /\ depth' = depth + 1
            /\ IF target_index < p.next_lesser
               THEN /\ end' = p.next_lesser
                    /\ UNCHANGED <<start, spc, sret>>
               ELSE IF target_index < p.prev_greater
                    THEN /\ sret' = p.next_lesser
                         /\ spc' = "done"
                         /\ UNCHANGED <<start, end>>
                    ELSE /\ start' = p.prev_greater
                         /\ UNCHANGED <<end, spc, sret>>
    /\ UNCHANGED <<target_index, sin>>
    /\ SelFrame

SelNext ==
    \/ choose_nth_item
    \/ choose_nth_item_trivial
    \/ choose_nth_item_partition

InitSelect == SelInit /\ ndebug = FALSE /\ ValIdle /\ OwnIdle /\ IoIdle

SpecSelect == InitSelect /\ [][SelNext]_vars

\* Reference: ascending sort by repeatedly extracting the minimum.
RECURSIVE SortedOf(_)
SortedOf(s) ==
    IF s = <<>> THEN <<>>
    ELSE LET m == CHOOSE i \in 1..Len(s) : \A j \in 1..Len(s) : s[i] <= s[j]
         IN <<s[m]>> \o SortedOf(SubSeq(s, 1, m - 1) \o SubSeq(s, m + 1, Len(s)))

\* C5: for a non-empty container and k in [0, length), whatever pivots are
\* drawn, choose_nth_item(k) terminates (every invocation strictly shrinks the
\* active range and a step is always possible until it returns) and the
\* element at the returned index equals element k of the sorted contents.
C5_ChooseNthMatchesSort ==
    /\ (spc = "done" /\ sin.k \in 0..(Len(sin.data) - 1)) =>
          /\ sret \in 0..(Len(sdata) - 1)
          /\ At(sdata, sret) = At(SortedOf(sin.data), sin.k)
    /\ (spc = "rec" /\ Len(sin.data) > 0) =>
          /\ 0 <= start /\ start < end /\ end <= Len(sdata)
          /\ (end - start) + depth <= Len(sin.data)
    /\ spc # "done" => ENABLED SelNext

C5_Witness ==
    /\ spc = "done"
    /\ depth >= 3
    /\ Len(sin.data) = MaxSelLen
    /\ sin.k = 2
    /\ \E i, j \in 1..Len(sin.data) : i # j /\ sin.data[i] = sin.data[j]
    /\ sdata # sin.data

(***************************************************************************)
(* Value container: GenericVector<T> over std::vector<T>                   *)
(***************************************************************************)
MaxValLen == 3
MaxValVal == 2

ValValues == 1..MaxValVal

\* The value std::vector::resize gives a new element of a primitive T.
ValDefault == 0

\* std::vector<T>::resize(n): drops the tail when n is smaller, appends
\* value-initialized elements when n is larger.
resize(d, n, fill) ==
    IF n <= Len(d) THEN SubSeq(d, 1, n)
    ELSE d \o [i \in 1..(n - Len(d)) |-> fill]

\* std::vector<T>::push_back
push_back(d, t) == Append(d, t)

\* GenericVector::truncate(int size)
GV_truncate(d, size, fill) == resize(d, size, fill)

\* The shift loop of GenericVector::remove: data()[i] = data()[i + 1].
RECURSIVE RemoveShift(_, _)
RemoveShift(d, i) ==
    IF i < Len(d) - 1
    THEN RemoveShift([d EXCEPT ![i + 1] = d[i + 2]], i + 1)
    ELSE d

\* GenericVector::remove(int index), for an index that passes the assertion.
GV_remove(d, index, fill) == resize(RemoveShift(d, index), Len(d) - 1, fill)

\* The callback installed by GenericVectorEqEq: cmp_eq<T>.
cmp_eq(t1, t2) == t1 = t2

\* GenericVector::get_index: the loop from index i on.  Each iteration first
\* asserts that a callback is installed; without one the call aborts (assert)
\* or, with NDEBUG, invoking the empty std::function throws.
RECURSIVE get_index_from(_, _, _, _, _)
get_index_from(d, object, cb, nd, i) ==
    IF ~(i < Len(d)) THEN [outcome |-> "returned", ret |-> -1]
    ELSE IF cb = "nullptr"
         THEN [outcome |-> IF nd THEN "bad_function_call" ELSE "assert", ret |-> -1]
         ELSE IF cmp_eq(object, At(d, i))
              THEN [outcome |-> "returned", ret |-> i]
              ELSE get_index_from(d, object, cb, nd, i + 1)

get_index(d, object, cb, nd) == get_index_from(d, object, cb, nd, 0)

\* GenericVector::push_back_new
push_back_new(d, object, cb, nd) ==
    LET g == get_index(d, object, cb, nd)
    IN IF g.outcome # "returned" THEN [outcome |-> g.outcome, ret |-> -1, data |-> d]
       ELSE IF g.ret >= 0 THEN [outcome |-> "returned", ret |-> g.ret, data |-> d]
       ELSE LET pushed == push_back(d, object)
            IN [outcome |-> "returned", ret |-> Len(pushed), data |-> pushed]

\* What the value container's operations leave alone.
ValFrame == UNCHANGED <<selVars, ndebug, ownVars, ioVars>>

ValInit ==
    /\ ndebug \in BOOLEAN
    /\ vdata = <<>>
    /\ compare_cb_ \in {"nullptr", "cmp_eq"}
    /\ vlast = NoOp
    /\ vhalted = FALSE

\* set_compare_callback(cmp_eq)
v_set_compare_callback ==
    /\ ~vhalted
    /\ compare_cb_ = "nullptr"
    /\ compare_cb_' = "cmp_eq"
    /\ vlast' = [op |-> "set_compare_callback"]
    /\ UNCHANGED <<vdata, vhalted>>
    /\ ValFrame

\* push_back(t)
v_push_back ==
    /\ ~vhalted
    /\ Len(vdata) < MaxValLen
    /\ \E t \in ValValues :
         /\ vdata' = push_back(vdata, t)
         /\ vlast' = [op |-> "push_back", arg |-> t, pre |-> vdata]
    /\ UNCHANGED <<compare_cb_, vhalted>>
    /\ ValFrame

\* push_back_new(object)
v_push_back_new ==
    /\ ~vhalted
    /\ Len(vdata) < MaxValLen
    /\ \E object \in ValValues :
         LET r == push_back_new(vdata, object, compare_cb_, ndebug)
         IN /\ vdata' = r.data
            /\ vhalted' = (r.outcome = "assert")
            /\ vlast' = [op |-> "push_back_new", arg |-> object, pre |-> vdata,
                         ret |-> r.ret, outcome |-> r.outcome]
    /\ UNCHANGED compare_cb_
    /\ ValFrame

\* remove(index), index in range
v_remove ==
    /\ ~vhalted
    /\ \E index \in 0..(Len(vdata) - 1) :
         /\ vdata' = GV_remove(vdata, index, ValDefault)
         /\ vlast' = [op |-> "remove", arg |-> index, pre |-> vdata]
    /\ UNCHANGED <<compare_cb_, vhalted>>
    /\ ValFrame

ValNext ==
    \/ v_set_compare_callback
    \/ v_push_back
    \/ v_push_back_new
    \/ v_remove

InitVal == ValInit /\ SelIdle /\ OwnIdle /\ IoIdle

SpecVal == InitVal /\ [][ValNext]_vars

\* C10: with an equality predicate installed, push_back_new(v) appends v only
\* if no equal element is present, and the returned index holds an element
\* equal to v after the call.
C10_PushBackNewReturnsIndexOfV ==
    (vlast.op = "push_back_new" /\ compare_cb_ = "cmp_eq") =>
        /\ vlast.outcome = "returned"
        /\ IF \E i \in 1..Len(vlast.pre) : vlast.pre[i] = vlast.arg
           THEN vdata = vlast.pre
           ELSE vdata = Append(vlast.pre, vlast.arg)
        /\ vlast.ret \in 0..(Len(vdata) - 1)
        /\ At(vdata, vlast.ret) = vlast.arg

(***************************************************************************)
(* Owning container: PointerVector<T> = GenericVector<T*> plus ownership   *)
(***************************************************************************)
MaxAddr == 3
MaxOwnLen == 2
MaxOwnVal == 1

OwnValues == 1..MaxOwnVal
Names == {"A", "B"}

\* The container the client fills, truncates and compacts; the other one is
\* built from it by copy and then shrunk or destroyed.
Filled == {"A"}

\* nullptr; also what std::vector<T*>::resize fills new slots with.
NullPtr == 0

\* new T(v): a fresh object; its address is the next index of the heap.
New(h, v) == Append(h, [val |-> v, live |-> TRUE, dels |-> 0])

\* delete p: no effect on nullptr; otherwise the object is destroyed.  dels
\* counts the deletions of an address.
Delete(h, p) ==
    IF p = NullPtr THEN h
    ELSE [h EXCEPT ![p] = [val |-> @.val, live |-> FALSE, dels |-> @.dels + 1]]

\* The elements of a sequence.
Range(d) == {d[i] : i \in 1..Len(d)}

\* PointerVector::remove with the slot after the removed one deleted.
PV_remove_DeletesNext(d, h, index) ==
    [d |-> GV_remove(d, index, NullPtr),
     h |-> Delete(h, IF index + 1 < Len(d) THEN At(d, index + 1) ELSE NullPtr)]

\* PointerVector::remove(int index), for an index in range.
PV_remove(d, h, index) ==
    [d |-> GV_remove(d, index, NullPtr), h |-> Delete(h, At(d, index))]

\* The delete loop of PointerVector::truncate, from slot i on.
RECURSIVE DeleteFrom(_, _, _)
DeleteFrom(d, h, i) ==
    IF i < Len(d) THEN DeleteFrom(d, Delete(h, At(d, i)), i + 1) ELSE h

\* PointerVector::truncate(int size)
PV_truncate(d, h, size) ==
    [d |-> GV_truncate(d, size, NullPtr), h |-> DeleteFrom(d, h, size)]

\* GenericVector::delete_data_pointers
delete_data_pointers(d, h) == DeleteFrom(d, h, 0)

\* PointerVector::clear()
PV_clear(d, h) == [d |-> <<>>, h |-> delete_data_pointers(d, h)]

\* First loop of PointerVector::compact: elements stay in place until the
\* callback first returns true; old_index is incremented by the very test
\* that ends the loop.  cb is the set of pointers delete_cb returns true for;
\* calls lists the indices delete_cb was called with.
RECURSIVE CompactKeep(_, _, _, _, _)
CompactKeep(d, cb, new_size, old_index, calls) ==
    IF old_index < Len(d)
    THEN IF At(d, old_index) \notin cb
         THEN CompactKeep(d, cb, new_size + 1, old_index + 1,
                          Append(calls, old_index))
         ELSE [new_size |-> new_size, old_index |-> old_index + 1,
               calls |-> Append(calls, old_index)]
    ELSE [new_size |-> new_size, old_index |-> old_index, calls |-> calls]

\* Second loop of PointerVector::compact: survivors are copied down, the
\* others deleted.
RECURSIVE CompactCopy(_, _, _, _, _, _)
CompactCopy(d, h, cb, new_size, old_index, calls) ==
    IF old_index < Len(d)
    THEN IF At(d, old_index) \notin cb
         THEN CompactCopy([d EXCEPT ![new_size + 1] = At(d, old_index)], h, cb,
                          new_size + 1, old_index + 1, Append(calls, old_index))
         ELSE CompactCopy(d, Delete(h, At(d, old_index)), cb,
                          new_size, old_index + 1, Append(calls, old_index))
    ELSE [d |-> d, h |-> h, new_size |-> new_size, calls |-> calls]

\* PointerVector::compact(delete_cb)
PV_compact(d, h, cb) ==
    LET k == CompactKeep(d, cb, 0, 0, <<>>)
        c == CompactCopy(d, h, cb, k.new_size, k.old_index, k.calls)
    IN [d |-> resize(c.d, c.new_size, NullPtr), h |-> c.h, calls |-> c.calls]

\* One outcome of dereferencing a null slot: the program crashes.
UbCrash == 0

\* The loop of PointerVector::operator+=, from other's slot i on:
\* push_back(new T(*other.data()[i])).  Dereferencing a null slot is
\* undefined: ub[i + 1] is what the build does there, UbCrash or the value
\* the copy ends up with.
RECURSIVE PlusEqFrom(_, _, _, _, _)
PlusEqFrom(d, h, od, ub, i) ==
    IF ~(i < Len(od)) THEN [d |-> d, h |-> h, outcome |-> "returned"]
    ELSE IF At(od, i) = NullPtr
         THEN IF At(ub, i) = UbCrash
              THEN [d |-> d, h |-> h, outcome |-> "crash"]
              ELSE PlusEqFrom(push_back(d, Len(h) + 1), New(h, At(ub, i)), od, ub, i + 1)
         ELSE PlusEqFrom(push_back(d, Len(h) + 1), New(h, h[At(od, i)].val),
                         od, ub, i + 1)

\* PointerVector::operator+=(const PointerVector& other)
PV_plus_eq(d, h, od, ub) == PlusEqFrom(d, h, od, ub, 0)

\* GenericVector::init with the clear() left out: the pointers the base was
\* copy-constructed with stay in place.
GV_init_NoClear(d, size, fill) == resize(d, size, fill)

\* GenericVector::init(int size): the base's clear(), then resize(size).
GV_init(d, size, fill) == resize(<<>>, size, fill)

\* PointerVector(const PointerVector& other): the base is copy-constructed
\* from other (the same pointers), init(other.size()), then operator+=(other).
PV_copy_construct(h, od, ub) ==
    PV_plus_eq(GV_init(od, Len(od), NullPtr), h, od, ub)

\* PointerVector::operator=(const PointerVector& other), other not this.
PV_assign(d, h, od, ub) ==
    LET t == PV_truncate(d, h, 0)
    IN PV_plus_eq(t.d, t.h, od, ub)

\* What the owning container's operations leave alone.
OwnFrame == UNCHANGED <<selVars, ndebug, valVars, ioVars>>

\* What a build may do for each null slot other has: crash, or go on with a
\* copy holding some value.
UbChoices(od) ==
    {ub \in [1..Len(od) -> {UbCrash} \cup OwnValues] :
        \A i \in 1..Len(od) : od[i] # NullPtr => ub[i] = UbCrash}

OwnInit ==
    /\ ndebug = FALSE
    /\ heap = <<>>
    /\ vec = [c \in Names |-> <<>>]
    /\ alive = [c \in Names |-> c = "A"]
    /\ olast = NoOp
    /\ ohalted = FALSE

\* PointerVector()
o_construct ==
    /\ ~ohalted
    /\ \E c \in Names :
         /\ ~alive[c]
         /\ alive' = [alive EXCEPT ![c] = TRUE]
         /\ vec' = [vec EXCEPT ![c] = <<>>]
         /\ olast' = [op |-> "construct", c |-> c]
    /\ UNCHANGED <<heap, ohalted>>
    /\ OwnFrame

\* push_back(new T(v))
o_push_back_new_T ==
    /\ ~ohalted
    /\ Len(heap) < MaxAddr
    /\ \E c \in Filled, v \in OwnValues :
         /\ alive[c]
         /\ Len(vec[c]) < MaxOwnLen
         /\ heap' = New(heap, v)
         /\ vec' = [vec EXCEPT ![c] = push_back(@, Len(heap) + 1)]
         /\ olast' = [op |-> "push_back", c |-> c]
    /\ UNCHANGED <<alive, ohalted>>
    /\ OwnFrame

\* push_back(nullptr)
o_push_back_nullptr ==
    /\ ~ohalted
    /\ \E c \in Filled :
         /\ alive[c]
         /\ Len(vec[c]) < MaxOwnLen
         /\ vec' = [vec EXCEPT ![c] = push_back(@, NullPtr)]
         /\ olast' = [op |-> "push_back", c |-> c]
    /\ UNCHANGED <<heap, alive, ohalted>>
    /\ OwnFrame

\* remove(index), index in range
o_remove ==
    /\ ~ohalted
    /\ \E c \in Names :
         /\ alive[c]
         /\ \E index \in 0..(Len(vec[c]) - 1) :
              LET r == PV_remove(vec[c], heap, index)
              IN /\ vec' = [vec EXCEPT ![c] = r.d]
                 /\ heap' = r.h
                 /\ olast' = [op |-> "remove", c |-> c, arg |-> index,
                              ptr |-> At(vec[c], index)]
    /\ UNCHANGED <<alive, ohalted>>
    /\ OwnFrame

\* truncate(size)
o_truncate ==
    /\ ~ohalted
    /\ \E c \in Filled :
         /\ alive[c]
         /\ \E size \in 0..MaxOwnLen :
              LET r == PV_truncate(vec[c], heap, size)
              IN /\ vec' = [vec EXCEPT ![c] = r.d]
                 /\ heap' = r.h
                 /\ olast' = [op |-> "truncate", c |-> c, arg |-> size]
    /\ UNCHANGED <<alive, ohalted>>
    /\ OwnFrame

\* compact(delete_cb); delete_cb returns true exactly for the pointers in cb
o_compact ==
    /\ ~ohalted
    /\ \E c \in Filled :
         /\ alive[c]
         /\ \E cb \in SUBSET Range(vec[c]) :
              LET r == PV_compact(vec[c], heap, cb)
              IN /\ vec' = [vec EXCEPT ![c] = r.d]
                 /\ heap' = r.h
                 /\ olast' = [op |-> "compact", c |-> c, arg |-> cb,
                              calls |-> r.calls]
    /\ UNCHANGED <<alive, ohalted>>
    /\ OwnFrame

\* clear()
o_clear ==
    /\ ~ohalted
    /\ \E c \in Names :
         /\ alive[c]
         /\ LET r == PV_clear(vec[c], heap)
            IN /\ vec' = [vec EXCEPT ![c] = r.d]
               /\ heap' = r.h
               /\ olast' = [op |-> "clear", c |-> c]
    /\ UNCHANGED <<alive, ohalted>>
    /\ OwnFrame

\* PointerVector dst(src)
o_copy_construct ==
    /\ ~ohalted
    /\ \E dst \in Names, src \in Names :
         /\ ~alive[dst] /\ alive[src]
         /\ Len(heap) + Len(vec[src]) <= MaxAddr
         /\ \E ub \in UbChoices(vec[src]) :
              LET r == PV_copy_construct(heap, vec[src], ub)
              IN /\ vec' = [vec EXCEPT ![dst] = r.d]
                 /\ heap' = r.h
                 /\ alive' = [alive EXCEPT ![dst] = TRUE]
                 /\ ohalted' = (r.outcome = "crash")
                 /\ olast' = [op |-> "copy_construct", c |-> dst, src |-> src,
                              outcome |-> r.outcome]
    /\ OwnFrame

\* dst = src
o_assign ==
    /\ ~ohalted
    /\ \E dst \in Names, src \in Names :
         /\ alive[dst] /\ alive[src]
         /\ Len(heap) + Len(vec[src]) <= MaxAddr
         /\ IF dst = src
            THEN /\ olast' = [op |-> "self_assign", c |-> dst]
                 /\ UNCHANGED <<vec, heap, ohalted>>
            ELSE \E ub \in UbChoices(vec[src]) :
                   LET r == PV_assign(vec[dst], heap, vec[src], ub)
                   IN /\ vec' = [vec EXCEPT ![dst] = r.d]
                      /\ heap' = r.h
                      /\ ohalted' = (r.outcome = "crash")
                      /\ olast' = [op |-> "assign", c |-> dst, src |-> src,
                                   outcome |-> r.outcome]
    /\ UNCHANGED alive
    /\ OwnFrame

\* ~PointerVector(): clear(), then the base releases the storage.
o_destroy ==
    /\ ~ohalted
    /\ \E c \in Names :
         /\ alive[c]
         /\ LET r == PV_clear(vec[c], heap)
            IN /\ vec' = [vec EXCEPT ![c] = r.d]
               /\ heap' = r.h
               /\ olast' = [op |-> "destroy", c |-> c]
         /\ alive' = [alive EXCEPT ![c] = FALSE]
    /\ UNCHANGED ohalted
    /\ OwnFrame

OwnNext ==
    \/ o_construct
    \/ o_push_back_new_T
    \/ o_push_back_nullptr
    \/ o_remove
    \/ o_truncate
    \/ o_compact
    \/ o_clear
    \/ o_copy_construct
    \/ o_assign
    \/ o_destroy

InitOwn == OwnInit /\ SelIdle /\ ValIdle /\ IoIdle

SpecOwn == InitOwn /\ [][OwnNext]_vars

\* Address q was live and never deleted before the step, and is deleted
\* exactly once by it.
DeletedOnceByStep(q) ==
    /\ heap[q].live /\ heap[q].dels = 0
    /\ ~heap'[q].live /\ heap'[q].dels = 1

\* The sequence d without the elements in the set cb.
Survivors(d, cb) == SelectSeq(d, LAMBDA p : p \notin cb)

\* C6: after copy-constructing or copy-assigning B from A, B has A's length,
\* exactly one new pointee was allocated per non-null slot of A, B[i] is
\* null where A[i] is and otherwise value-equal to A[i], and no slot of B holds
\* a pointer held by a slot of A.
C6_CopyIsDeepAndSameLength ==
    [][olast'.op \in {"copy_construct", "assign"} =>
        LET b == olast'.c
            a == olast'.src
        IN /\ olast'.outcome = "returned"
           /\ vec'[a] = vec[a]
           /\ Len(vec'[b]) = Len(vec[a])
           /\ Len(heap') - Len(heap)
                 = Cardinality({i \in 1..Len(vec[a]) : vec[a][i] # NullPtr})
           /\ \A i \in 1..Len(vec[a]) :
                 IF vec[a][i] = NullPtr THEN vec'[b][i] = NullPtr
                 ELSE /\ vec'[b][i] # NullPtr
                      /\ heap'[vec'[b][i]].val = heap'[vec[a][i]].val
           /\ \A i \in 1..Len(vec'[b]) :
                 vec'[b][i] # NullPtr => vec'[b][i] \notin Range(vec'[a])
    ]_vars

\* C7: remove(i) with a valid i deletes the pointee formerly at slot i exactly
\* once and no other pointee, shifts the slots after i left by one in order,
\* shrinks the length by one, and leaves the removed pointer in no slot.
C7_RemoveDeletesThatSlotOnly ==
    [][olast'.op = "remove" =>
        LET c == olast'.c
            i == olast'.arg
            d0 == vec[c]
            p == At(vec[c], olast'.arg)
        IN /\ Len(vec'[c]) = Len(d0) - 1
           /\ vec'[c] = SubSeq(d0, 1, i) \o SubSeq(d0, i + 2, Len(d0))
           /\ \A o \in Names \ {c} : vec'[o] = vec[o]
           /\ Len(heap') = Len(heap)
           /\ \A q \in 1..Len(heap) : q # p => heap'[q] = heap[q]
           /\ p # NullPtr =>
                 /\ DeletedOnceByStep(p)
                 /\ \A o \in Names : p \notin Range(vec'[o])
    ]_vars

C7_Witness ==
    /\ olast.op = "remove"
    /\ olast.arg = 0
    /\ olast.ptr # NullPtr
    /\ ~heap[olast.ptr].live
    /\ Len(vec[olast.c]) >= 1
    /\ vec[olast.c][1] # NullPtr
    /\ heap[vec[olast.c][1]].live

\* C8: compact(predicate) examines each element once in index order; each
\* element the predicate accepts has its pointee deleted exactly once and its
\* slot dropped; each element it rejects survives undeleted, in order; the
\* final length is the number of survivors.
C8_CompactDeletesEveryAccepted ==
    [][olast'.op = "compact" =>
        LET c == olast'.c
            cb == olast'.arg
            d0 == vec[c]
        IN /\ olast'.calls = [i \in 1..Len(d0) |-> i - 1]
           /\ vec'[c] = Survivors(d0, cb)
           /\ Len(heap') = Len(heap)
           /\ \A q \in 1..Len(heap) :
                 IF q \in cb /\ q \in Range(d0)
                 THEN DeletedOnceByStep(q)
                 ELSE heap'[q] = heap[q]
    ]_vars

\* C9: truncate(n) never grows the container: the length becomes
\* min(previous length, n), the first min(previous length, n) elements are
\* unchanged, and exactly the pointees of the discarded tail are deleted.
C9_TruncateNeverGrows ==
    [][olast'.op = "truncate" =>
        LET c == olast'.c
            n == olast'.arg
            d0 == vec[c]
            m == Min(Len(vec[c]), olast'.arg)
        IN /\ Len(vec'[c]) = m
           /\ SubSeq(vec'[c], 1, m) = SubSeq(d0, 1, m)
           /\ Len(heap') = Len(heap)
           /\ \A q \in 1..Len(heap) :
                 IF \E i \in (m + 1)..Len(d0) : d0[i] = q
                 THEN DeletedOnceByStep(q)
                 ELSE heap'[q] = heap[q]
    ]_vars

(***************************************************************************)
(* Serialization: bytes, files and the element types                       *)
(*                                                                         *)
(* A file is a record [bytes, pos]: the bytes it holds and the read        *)
(* offset.  The host is little-endian; swap says that the producer of the  *)
(* bytes was not.                                                          *)
(***************************************************************************)

\* Byte k (0 = least significant) of the integer v.
ByteOf(v, k) == (v \div (256 ^ k)) % 256

\* The n bytes of v in host order.
HostBytes(v, n) == [k \in 1..n |-> ByteOf(v, k - 1)]

\* The integer whose host-order bytes are b.
RECURSIVE FromHostBytes(_)
FromHostBytes(b) ==
    IF b = <<>> THEN 0 ELSE b[1] + 256 * FromHostBytes(Tail(b))

\* The bytes b in the opposite order.
ReverseBytes(b) == [k \in 1..Len(b) |-> b[Len(b) + 1 - k]]

\* ReverseN(ptr, n) on the n-byte value v; Reverse32 is ReverseN(.., 4).
ReverseN(v, n) == FromHostBytes(ReverseBytes(HostBytes(v, n)))

\* The 32-bit word whose host-order bytes are b, as the int32_t it reads as.
Int32Of(b) ==
    LET low == b[1] + 256 * b[2] + 65536 * b[3] + 16777216 * (b[4] % 128)
    IN IF b[4] >= 128 THEN (low - 1073741824) - 1073741824 ELSE low

\* The 32-bit count in the buffer b, byte-reversed when swap is set
\* (Reverse32 after fread, or FReadEndian).
CountAt(b, swap) == Int32Of(IF swap THEN ReverseBytes(b) ELSE b)

\* w > c for the 32-bit word w read as a uint32_t and a constant c below
\* 2^31: every word with the top bit set is greater.
UnsignedGreater(w, c) == w < 0 \/ w > c

\* n converted to size_t exceeds max_size() of a vector: a negative int
\* becomes a value of at least 2^64 - 2^31, a non-negative one stays below
\* 2^31.
ExceedsMaxSize(n) == n < 0

\* fwrite / TFile::FWrite of the bytes b: they are appended.
FWrite(bytes, b) == bytes \o b

\* fread / TFile::FRead of count elements of size bytes each: the elements
\* wholly present are returned, the offset moves over every byte consumed.
FRead(f, size, count) ==
    LET left == Len(f.bytes) - f.pos
        n == IF count > left \div size THEN left ELSE size * count
        whole == (n \div size) * size
    IN [f |-> [bytes |-> f.bytes, pos |-> f.pos + n],
        got |-> n \div size,
        bytes |-> SubSeq(f.bytes, f.pos + 1, f.pos + whole)]

\* Element i (0-based) of a buffer of fixed-size elements, as an integer,
\* byte-reversed when swap is set (FReadEndian, or the caller's ReverseN).
ElementAt(b, size, i, swap) ==
    LET v == FromHostBytes(SubSeq(b, i * size + 1, (i + 1) * size))
    IN IF swap THEN ReverseN(v, size) ELSE v

\* The concatenation chunks[lo] \o ... \o chunks[hi], what a loop that
\* writes one chunk per element leaves in the file.
RECURSIVE Flatten(_, _, _)
Flatten(chunks, lo, hi) ==
    IF lo > hi THEN <<>>
    ELSE IF lo = hi THEN chunks[lo]
    ELSE LET mid == (lo + hi) \div 2
         IN Flatten(chunks, lo, mid) \o Flatten(chunks, mid + 1, hi)

\* ---- the primitive element type of the raw pair ----
\* The primitive types the raw pair is instantiated with have 1 to
\* MaxSizeofT bytes.
MaxSizeofT == 2

\* sizeof(T) of the primitive T of the run.
SizeofT == iocfg.size

\* The value-initialized primitive.
RawDefault == 0

\* Values of the primitive T: zero, a one-byte value and, where T has room
\* for it, one whose two low bytes differ.
RawValues == {v \in {0, 1, 513} : v < 256 ^ SizeofT}

\* ---- the class element type of the delegated and the owning pair ----
\* T holds a short byte string.  T::Serialize writes its length in one byte
\* and then the bytes; T::DeSerialize reads them back; T::SkipDeSerialize
\* reads the length and passes over the bytes.
MaxPayload == 1

TValues == SeqsUpTo({0, 1}, MaxPayload)

\* T(): the default-constructed element.
TDefault == <<>>

\* bool T::Serialize(fp) const
T_Serialize(t) == <<Len(t)>> \o t

\* bool T::DeSerialize(fp) / T::DeSerialize(swap, fp), into the element t
T_DeSerialize(t, f) ==
    LET r1 == FRead(f, 1, 1)
    IN IF r1.got # 1 THEN [ok |-> FALSE, t |-> t, f |-> r1.f]
       ELSE LET r2 == FRead(r1.f, 1, r1.bytes[1])
            IN IF r2.got # r1.bytes[1] THEN [ok |-> FALSE, t |-> t, f |-> r2.f]
               ELSE [ok |-> TRUE, t |-> r2.bytes, f |-> r2.f]

\* static bool T::SkipDeSerialize(fp)
T_SkipDeSerialize(f) ==
    LET r1 == FRead(f, 1, 1)
    IN IF r1.got # 1 THEN [ok |-> FALSE, f |-> r1.f]
       ELSE LET r2 == FRead(r1.f, 1, r1.bytes[1])
            IN [ok |-> r2.got = r1.bytes[1], f |-> r2.f]

\* ---- results ----
\* The model builds a resized vector element by element when the count is at
\* most MaxMaterial or the file holds that many elements; any other resize or
\* reserve is only recorded (allocs) and the vector left as it was.
MaxMaterial == 4

\* The file holds n more elements of size bytes each.
Holds(f, size, n) == n <= (Len(f.bytes) - f.pos) \div size

Built(n, f, size) == n >= 0 /\ (n <= MaxMaterial \/ Holds(f, size, n))

\* What a deserializing call did: the value returned, how it ended
\* ("returned", "assert", "length_error", "bad_alloc"), the counts passed to
\* resize/reserve (in call order), the file offset and the vector
\* afterwards.
Result(ret, outcome, allocs, f, d) ==
    [ret |-> ret, outcome |-> outcome, allocs |-> allocs, pos |-> f.pos, d |-> d]

\* The check of a declared count against a ceiling failed:
\* assert(reserved <= ceiling) aborts, or with NDEBUG the call returns false.
Rejected(nd, f, d) ==
    Result(FALSE, IF nd THEN "returned" ELSE "assert", <<>>, f, d)

\* A resize to n elements the model does not build: beyond max_size() it
\* throws length_error; otherwise it throws bad_alloc when
\* memory is exhausted, and when it succeeds the reads that follow run out of
\* bytes, since the file does not hold that many elements.
Unbuilt(n, mem, f, d) ==
    IF ExceedsMaxSize(n) THEN Result(FALSE, "length_error", <<n>>, f, d)
    ELSE IF mem = "exhausted" THEN Result(FALSE, "bad_alloc", <<n>>, f, d)
    ELSE Result(FALSE, "returned", <<n>>, [f EXCEPT !.pos = Len(f.bytes)], d)

(***************************************************************************)
(* GenericVector: the raw pair and the delegated pair                      *)
(***************************************************************************)
\* UINT16_MAX, the ceiling of the FILE* overloads.
UINT16_MAX == 65535

\* const uint32_t limit of GenericVector::DeSerialize(TFile*).
limit == 50000000

\* fwrite(data(), sizeof(T), sz, fp): the elements' bytes in index order.
RawBytes(d) ==
    [j \in 1..(Len(d) * SizeofT) |->
        ByteOf(d[((j - 1) \div SizeofT) + 1], (j - 1) % SizeofT)]

\* GenericVector::Serialize(FILE*) and Serialize(TFile*): the count as an
\* int32_t, then the raw elements.
GV_Serialize(d) == FWrite(FWrite(<<>>, HostBytes(Len(d), 4)), RawBytes(d))

\* A read that stores every element one slot too far.
ReadInto_OneSlotLate(d, b, got, swap) ==
    [i \in 1..Len(d) |->
        IF 1 < i /\ i <= got THEN ElementAt(b, SizeofT, i - 2, swap) ELSE d[i]]

\* The vector d after a read of its elements that got the first `got`
\* elements from the buffer b (byte-reversed when swap is set).
ReadInto(d, b, got, swap) ==
    [i \in 1..Len(d) |->
        IF i <= got THEN ElementAt(b, SizeofT, i - 1, swap) ELSE d[i]]

\* GenericVector::DeSerialize(bool swap, FILE* fp)
GV_DeSerialize_FILE(d, f, swap, nd, mem) ==
    LET r1 == FRead(f, 4, 1)
    IN IF r1.got # 1 THEN Result(FALSE, "returned", <<>>, r1.f, d)
       ELSE
       LET reserved == CountAt(r1.bytes, swap)
       IN IF UnsignedGreater(reserved, UINT16_MAX) THEN Rejected(nd, r1.f, d)
          ELSE IF ~Built(reserved, r1.f, SizeofT) THEN Unbuilt(reserved, mem, r1.f, d)
          ELSE
          LET d1 == resize(d, reserved, RawDefault)
              r2 == FRead(r1.f, SizeofT, Len(d1))
          IN IF r2.got # Len(d1)
             THEN Result(FALSE, "returned", <<reserved>>, r2.f,
                         ReadInto(d1, r2.bytes, r2.got, FALSE))
             ELSE Result(TRUE, "returned", <<reserved>>, r2.f,
                         ReadInto(d1, r2.bytes, r2.got, swap))

\* GenericVector::DeSerialize(TFile* fp); swap is the TFile's own.
GV_DeSerialize_TFile(d, f, swap, nd, mem) ==
    LET r1 == FRead(f, 4, 1)
    IN IF r1.got # 1 THEN Result(FALSE, "returned", <<>>, r1.f, d)
       ELSE
       LET reserved == CountAt(r1.bytes, swap)
       IN IF UnsignedGreater(reserved, limit) THEN Rejected(nd, r1.f, d)
          ELSE IF ~Built(reserved, r1.f, SizeofT) THEN Unbuilt(reserved, mem, r1.f, d)
          ELSE
          LET d1 == resize(d, reserved, RawDefault)
              r2 == FRead(r1.f, SizeofT, Len(d1))
          IN Result(r2.got = Len(d1), "returned", <<reserved>>, r2.f,
                    ReadInto(d1, r2.bytes, r2.got, swap))

\* GenericVector::SkipDeSerialize(TFile* fp)
GV_SkipDeSerialize(f, swap) ==
    LET r1 == FRead(f, 4, 1)
    IN IF r1.got # 1 THEN Result(FALSE, "returned", <<>>, r1.f, <<>>)
       ELSE
       LET reserved == CountAt(r1.bytes, swap)
           r2 == FRead(r1.f, SizeofT, reserved)
       IN Result(r2.got = reserved, "returned", <<>>, r2.f, <<>>)

\* GenericVector::SerializeClasses(FILE*) and SerializeClasses(TFile*): the
\* count, then every element's own Serialize in index order.
GV_SerializeClasses(d) ==
    FWrite(FWrite(<<>>, HostBytes(Len(d), 4)),
           Flatten([i \in 1..Len(d) |-> T_Serialize(d[i])], 1, Len(d)))

\* A result with the number of calls of the element's DeSerialize made.
WithCalls(r, n) ==
    [ret |-> r.ret, outcome |-> r.outcome, allocs |-> r.allocs, pos |-> r.pos,
     d |-> r.d, calls |-> n]

\* GenericVector::init_to_size(int size, const T& t)
init_to_size(d, size, t) == resize(d, size, t)

\* The element loop of DeSerializeClasses, from index i on.
RECURSIVE DeSerializeClassesFrom(_, _, _, _, _)
DeSerializeClassesFrom(d, f, reserved, allocs, i) ==
    IF ~(i < reserved) THEN WithCalls(Result(TRUE, "returned", allocs, f, d), i)
    ELSE LET r == T_DeSerialize(At(d, i), f)
         IN IF ~r.ok
            THEN WithCalls(Result(FALSE, "returned", allocs, r.f,
                                  [d EXCEPT ![i + 1] = r.t]), i + 1)
            ELSE DeSerializeClassesFrom([d EXCEPT ![i + 1] = r.t], r.f,
                                        reserved, allocs, i + 1)

\* GenericVector::DeSerializeClasses(bool swap, FILE*) and
\* DeSerializeClasses(TFile*): the count as an int32_t, init_to_size with a
\* default T, every element's own DeSerialize in index order.
GV_DeSerializeClasses(d, f, swap, nd, mem) ==
    LET r1 == FRead(f, 4, 1)
    IN IF r1.got # 1 THEN WithCalls(Result(FALSE, "returned", <<>>, r1.f, d), 0)
       ELSE
       LET reserved == CountAt(r1.bytes, swap)
       IN IF ~Built(reserved, r1.f, 1)
          THEN WithCalls(Unbuilt(reserved, mem, r1.f, d), 0)
          ELSE DeSerializeClassesFrom(init_to_size(d, reserved, TDefault),
                                      r1.f, reserved, <<reserved>>, 0)

\* The element loop of SkipDeSerializeClasses, from index i on.
RECURSIVE SkipClassesFrom(_, _, _)
SkipClassesFrom(f, reserved, i) ==
    IF ~(i < reserved) THEN Result(TRUE, "returned", <<>>, f, <<>>)
    ELSE LET r == T_SkipDeSerialize(f)
         IN IF ~r.ok THEN Result(FALSE, "returned", <<>>, r.f, <<>>)
            ELSE SkipClassesFrom(r.f, reserved, i + 1)

\* GenericVector::SkipDeSerializeClasses(TFile* fp)
GV_SkipDeSerializeClasses(f, swap) ==
    LET r1 == FRead(f, 4, 1)
    IN IF r1.got # 1 THEN Result(FALSE, "returned", <<>>, r1.f, <<>>)
       ELSE SkipClassesFrom(r1.f, CountAt(r1.bytes, swap), 0)

(***************************************************************************)
(* Round trip of a value container: x is written to an empty file, then    *)
(* the file is read back into y                                            *)
(***************************************************************************)
MaxIoLen == 2
MaxIoPrev == 3

\* A vector one element longer than the ceiling of the FILE* overloads; it
\* is drawn for the one-byte T.
BigRaw == [i \in 1..(UINT16_MAX + 1) |-> RawDefault]

\* Previous contents of the target: any length up to MaxIoPrev.
PrevOf(S) == {[i \in 1..m |-> v] : m \in 0..MaxIoPrev, v \in S}

\* The file as the reader opens it.
Rewound(bytes) == [bytes |-> bytes, pos |-> 0]

\* What is kept of a call's result besides the vector.
Outcome(r) ==
    [ret |-> r.ret, outcome |-> r.outcome, allocs |-> r.allocs, pos |-> r.pos]

RawFrame ==
    UNCHANGED <<selVars, ndebug, valVars, ownVars, iocfg, gx, skipres>>

RawInit ==
    /\ ndebug \in BOOLEAN
    /\ iocfg \in [pair : {"raw", "classes"}, overload : {"FILE", "TFile"},
                  size : 1..MaxSizeofT]
    /\ iocfg.pair = "classes" => iocfg.size = 1
    /\ IF iocfg.pair = "raw"
       THEN /\ gx \in SeqsUpTo(RawValues, MaxIoLen) \cup
                      (IF SizeofT = 1 THEN {BigRaw} ELSE {})
            /\ gy \in IF gx = BigRaw THEN {<<>>} ELSE PrevOf(RawValues)
       ELSE /\ gx \in SeqsUpTo(TValues, MaxIoLen)
            /\ gy \in PrevOf(TValues)
    /\ stream = <<>>
    /\ iopc = "serialize"
    /\ iores = NoOp
    /\ skipres = NoOp

\* x.Serialize(fp)
io_Serialize ==
    /\ iopc = "serialize" /\ iocfg.pair = "raw"
    /\ stream' = GV_Serialize(gx)
    /\ iopc' = "deserialize"
    /\ UNCHANGED <<gy, iores>>
    /\ RawFrame

\* x.SerializeClasses(fp)
io_SerializeClasses ==
    /\ iopc = "serialize" /\ iocfg.pair = "classes"
    /\ stream' = GV_SerializeClasses(gx)
    /\ iopc' = "deserialize"
    /\ UNCHANGED <<gy, iores>>
    /\ RawFrame

\* y.DeSerialize(false, fp) on a FILE*
io_DeSerialize_FILE ==
    /\ iopc = "deserialize" /\ iocfg.pair = "raw" /\ iocfg.overload = "FILE"
    /\ LET r == GV_DeSerialize_FILE(gy, Rewound(stream), FALSE, ndebug, "enough")
       IN gy' = r.d /\ iores' = Outcome(r)
    /\ iopc' = "done"
    /\ UNCHANGED stream
    /\ RawFrame

\* y.DeSerialize(fp) on a TFile* of the same byte order
io_DeSerialize_TFile ==
    /\ iopc = "deserialize" /\ iocfg.pair = "raw" /\ iocfg.overload = "TFile"
    /\ LET r == GV_DeSerialize_TFile(gy, Rewound(stream), FALSE, ndebug, "enough")
       IN gy' = r.d /\ iores' = Outcome(r)
    /\ iopc' = "done"
    /\ UNCHANGED stream
    /\ RawFrame

\* y.DeSerializeClasses(false, fp) / y.DeSerializeClasses(fp)
io_DeSerializeClasses ==
    /\ iopc = "deserialize" /\ iocfg.pair = "classes"
    /\ LET r == GV_DeSerializeClasses(gy, Rewound(stream), FALSE, ndebug, "enough")
       IN gy' = r.d /\ iores' = Outcome(r)
    /\ iopc' = "done"
    /\ UNCHANGED stream
    /\ RawFrame

RawNext ==
    \/ io_Serialize
    \/ io_SerializeClasses
    \/ io_DeSerialize_FILE
    \/ io_DeSerialize_TFile
    \/ io_DeSerializeClasses

InitRawIO == RawInit /\ SelIdle /\ ValIdle /\ OwnIdle

SpecRawIO == InitRawIO /\ [][RawNext]_vars

\* The read succeeded and y is x.
RoundTripped == iores.outcome = "returned" /\ iores.ret /\ gy = gx

\* The count n is one the entry point that reads the file accepts; the
\* delegated pair has no ceiling.
WithinCeiling(cfg, n) ==
    \/ cfg.pair = "classes"
    \/ cfg.pair = "raw" /\ cfg.overload = "FILE" /\ n <= UINT16_MAX
    \/ cfg.pair = "raw" /\ cfg.overload = "TFile" /\ n <= limit

\* C2 as stated: for every GenericVector x, after x is written with Serialize
\* (or SerializeClasses) to an empty stream and the matching DeSerialize (or
\* DeSerializeClasses) reads it into y, the read succeeds and y == x, whatever
\* y held before.
C2_RoundTripAnyLength == iopc = "done" => RoundTripped

\* C2, amended: the round trip succeeds and gives y == x for every x whose
\* length does not exceed the ceiling of the entry point that reads it
\* (UINT16_MAX for DeSerialize(bool, FILE*), 50000000 for DeSerialize(TFile*),
\* none for DeSerializeClasses), whatever y held before.
C2_RoundTripWithinCeiling ==
    (iopc = "done" /\ WithinCeiling(iocfg, Len(gx))) => RoundTripped

\* A round trip of a two-element x of a two-byte T, with distinct elements.
C2_Witness ==
    /\ iopc = "done" /\ RoundTripped
    /\ iocfg.pair = "raw" /\ SizeofT = 2
    /\ Len(gx) = 2 /\ gx[1] # gx[2] /\ gx[2] > 255
    /\ iores.allocs = <<2>>
    /\ iores.pos = Len(stream)

(***************************************************************************)
(* PointerVector: presence byte per slot, then the pointee's own bytes     *)
(***************************************************************************)
\* The bytes one slot contributes to the file.
SlotBytes(p, h) ==
    IF p = NullPtr THEN <<0>> ELSE <<1>> \o T_Serialize(h[p].val)

\* PointerVector::Serialize(FILE*) and Serialize(TFile*)
PV_Serialize(d, h) ==
    FWrite(FWrite(<<>>, HostBytes(Len(d), 4)),
           Flatten([i \in 1..Len(d) |-> SlotBytes(d[i], h)], 1, Len(d)))

\* The result of a PointerVector call: as Result, with the heap afterwards.
PResult(ret, outcome, allocs, f, d, h) ==
    [ret |-> ret, outcome |-> outcome, allocs |-> allocs, pos |-> f.pos,
     d |-> d, h |-> h]

\* std::vector<T*>::reserve(n) fails: with length_error beyond max_size(),
\* with bad_alloc when memory is exhausted and the request is a large one.
ReserveFails(n, mem, f) ==
    ExceedsMaxSize(n) \/ (mem = "exhausted" /\ ~Built(n, f, 1))

ReserveFailure(n, f, d, h) ==
    PResult(FALSE, IF ExceedsMaxSize(n) THEN "length_error" ELSE "bad_alloc",
            <<n>>, f, d, h)

\* PointerVector::DeSerializeElement with a null slot not appended.
DeSerializeElement_DropsNull(d, h, f) ==
    LET r1 == FRead(f, 1, 1)
    IN IF r1.got # 1 THEN [ok |-> FALSE, d |-> d, h |-> h, f |-> r1.f]
       ELSE IF r1.bytes[1] # 0
       THEN LET item == Len(h) + 1
                r == T_DeSerialize(TDefault, r1.f)
            IN IF ~r.ok
               THEN [ok |-> FALSE, d |-> d,
                     h |-> Delete(New(h, TDefault), item), f |-> r.f]
               ELSE [ok |-> TRUE, d |-> push_back(d, item),
                     h |-> New(h, r.t), f |-> r.f]
       ELSE [ok |-> TRUE, d |-> d, h |-> h, f |-> r1.f]

\* PointerVector::DeSerializeElement(TFile* fp)
DeSerializeElement(d, h, f) ==
    LET r1 == FRead(f, 1, 1)
    IN IF r1.got # 1 THEN [ok |-> FALSE, d |-> d, h |-> h, f |-> r1.f]
       ELSE IF r1.bytes[1] # 0
       THEN LET item == Len(h) + 1
                r == T_DeSerialize(TDefault, r1.f)
            IN IF ~r.ok
               THEN [ok |-> FALSE, d |-> d,
                     h |-> Delete(New(h, TDefault), item), f |-> r.f]
               ELSE [ok |-> TRUE, d |-> push_back(d, item),
                     h |-> New(h, r.t), f |-> r.f]
       ELSE [ok |-> TRUE, d |-> push_back(d, NullPtr), h |-> h, f |-> r1.f]

\* PointerVector::DeSerializeSkip that passes the presence byte only.
DeSerializeSkip_PresenceOnly(f) ==
    LET r1 == FRead(f, 1, 1)
    IN [ok |-> r1.got = 1, f |-> r1.f]

\* PointerVector::DeSerializeSkip with the presence byte ignored.
DeSerializeSkip_IgnoresPresence(f) ==
    LET r1 == FRead(f, 1, 1)
    IN IF r1.got # 1 THEN [ok |-> FALSE, f |-> r1.f]
       ELSE T_SkipDeSerialize(r1.f)

\* PointerVector::DeSerializeSkip(TFile* fp)
DeSerializeSkip(f) ==
    LET r1 == FRead(f, 1, 1)
    IN IF r1.got # 1 THEN [ok |-> FALSE, f |-> r1.f]
       ELSE IF r1.bytes[1] # 0 THEN T_SkipDeSerialize(r1.f)
       ELSE [ok |-> TRUE, f |-> r1.f]

\* PointerVector::DeSerializeSize(TFile* fp, int32_t* size)
DeSerializeSize(f, swap) ==
    LET r1 == FRead(f, 4, 1)
    IN IF r1.got # 1 THEN [ok |-> FALSE, size |-> 0, f |-> r1.f]
       ELSE [ok |-> TRUE, size |-> CountAt(r1.bytes, swap), f |-> r1.f]

\* The element loop of PointerVector::DeSerialize(bool swap, FILE*), from
\* index i on.
RECURSIVE PV_DeSerialize_FILE_From(_, _, _, _, _, _)
PV_DeSerialize_FILE_From(d, h, f, reserved, allocs, i) ==
    IF ~(i < reserved) THEN PResult(TRUE, "returned", allocs, f, d, h)
    ELSE
    LET r1 == FRead(f, 1, 1)
    IN IF r1.got # 1 THEN PResult(FALSE, "returned", allocs, r1.f, d, h)
       ELSE IF r1.bytes[1] # 0
       THEN LET item == Len(h) + 1
                r == T_DeSerialize(TDefault, r1.f)
            IN IF ~r.ok
               THEN PResult(FALSE, "returned", allocs, r.f, d,
                            Delete(New(h, TDefault), item))
               ELSE PV_DeSerialize_FILE_From(push_back(d, item), New(h, r.t),
                                             r.f, reserved, allocs, i + 1)
       ELSE PV_DeSerialize_FILE_From(push_back(d, NullPtr), h, r1.f,
                                     reserved, allocs, i + 1)

\* PointerVector::DeSerialize(bool swap, FILE* fp)
PV_DeSerialize_FILE(d, h, f, swap, nd, mem) ==
    LET r1 == FRead(f, 4, 1)
    IN IF r1.got # 1 THEN PResult(FALSE, "returned", <<>>, r1.f, d, h)
       ELSE
       LET reserved == CountAt(r1.bytes, swap)
       IN IF UnsignedGreater(reserved, UINT16_MAX)
          THEN PResult(FALSE, IF nd THEN "returned" ELSE "assert", <<>>,
                       r1.f, d, h)
          ELSE IF ReserveFails(reserved, mem, r1.f)
          THEN ReserveFailure(reserved, r1.f, d, h)
          ELSE LET t == PV_truncate(d, h, 0)
               IN PV_DeSerialize_FILE_From(t.d, t.h, r1.f, reserved,
                                           <<reserved>>, 0)

\* The element loop of PointerVector::DeSerialize(TFile*), from index i on.
RECURSIVE PV_DeSerialize_TFile_From(_, _, _, _, _, _)
PV_DeSerialize_TFile_From(d, h, f, reserved, allocs, i) ==
    IF ~(i < reserved) THEN PResult(TRUE, "returned", allocs, f, d, h)
    ELSE LET r == DeSerializeElement(d, h, f)
         IN IF ~r.ok THEN PResult(FALSE, "returned", allocs, r.f, r.d, r.h)
            ELSE PV_DeSerialize_TFile_From(r.d, r.h, r.f, reserved, allocs,
                                           i + 1)

\* PointerVector::DeSerialize(TFile* fp)
PV_DeSerialize_TFile(d, h, f, swap, nd, mem) ==
    LET s == DeSerializeSize(f, swap)
    IN IF ~s.ok THEN PResult(FALSE, "returned", <<>>, s.f, d, h)
       ELSE IF ReserveFails(s.size, mem, s.f)
       THEN ReserveFailure(s.size, s.f, d, h)
       ELSE LET t == PV_truncate(d, h, 0)
            IN PV_DeSerialize_TFile_From(t.d, t.h, s.f, s.size, <<s.size>>, 0)

(***************************************************************************)
(* Round trip of an owning container: x (gx) is written to an empty file,  *)
(* then the file is read back into y (gy); both hold addresses of heap     *)
(***************************************************************************)
\* What a slot holds: <<>> for nullptr, <<t>> for a pointee of value t.
Slots == {<<>>} \cup {<<t>> : t \in TValues}

\* One slot more than the ceiling of the FILE* overload, all null.
BigSlots == [i \in 1..(UINT16_MAX + 1) |-> <<>>]

\* The objects a client allocates to fill the given slots, in slot order.
ObjectsOf(slots) ==
    LET full == SelectSeq(slots, LAMBDA s : s # <<>>)
    IN [k \in 1..Len(full) |-> [val |-> full[k][1], live |-> TRUE, dels |-> 0]]

\* The pointers in the slots, the first object being at address base + 1.
PtrsOf(slots, base) ==
    [i \in 1..Len(slots) |->
        IF slots[i] = <<>> THEN NullPtr
        ELSE base + Cardinality({j \in 1..i : slots[j] # <<>>})]

\* The slots of a vector as values: nullptr, or the value of a live pointee.
Deep(d, h) ==
    [i \in 1..Len(d) |-> IF d[i] = NullPtr THEN <<>> ELSE <<h[d[i]].val>>]

\* Every non-null slot points to a live object.
AllLive(d, h) == \A i \in 1..Len(d) : d[i] # NullPtr => h[d[i]].live

PtrFrame ==
    UNCHANGED <<selVars, ndebug, valVars, vec, alive, olast, ohalted, iocfg,
                gx, skipres>>

PtrInit ==
    /\ ndebug \in BOOLEAN
    /\ iocfg \in [pair : {"pointers"}, overload : {"FILE", "TFile"}]
    /\ \E xs \in SeqsUpTo(Slots, MaxIoLen) \cup
                 (IF iocfg.overload = "FILE" THEN {BigSlots} ELSE {}) :
       \E ys \in IF xs = BigSlots THEN {<<>>} ELSE PrevOf(Slots) :
         /\ heap = ObjectsOf(xs) \o ObjectsOf(ys)
         /\ gx = PtrsOf(xs, 0)
         /\ gy = PtrsOf(ys, Len(ObjectsOf(xs)))
    /\ vec = [c \in Names |-> <<>>]
    /\ alive = [c \in Names |-> FALSE]
    /\ olast = NoOp
    /\ ohalted = FALSE
    /\ stream = <<>>
    /\ iopc = "serialize"
    /\ iores = NoOp
    /\ skipres = NoOp

\* x.Serialize(fp)
p_Serialize ==
    /\ iopc = "serialize"
    /\ stream' = PV_Serialize(gx, heap)
    /\ iopc' = "deserialize"
    /\ UNCHANGED <<heap, gy, iores>>
    /\ PtrFrame

\* y.DeSerialize(false, fp) on a FILE*
p_DeSerialize_FILE ==
    /\ iopc = "deserialize" /\ iocfg.overload = "FILE"
    /\ LET r == PV_DeSerialize_FILE(gy, heap, Rewound(stream), FALSE,
                                    ndebug, "enough")
       IN /\ gy' = r.d
          /\ heap' = r.h
          /\ iores' = Outcome(r)
    /\ iopc' = "done"
    /\ UNCHANGED stream
    /\ PtrFrame

\* y.DeSerialize(fp) on a TFile* of the same byte order
p_DeSerialize_TFile ==
    /\ iopc = "deserialize" /\ iocfg.overload = "TFile"
    /\ LET r == PV_DeSerialize_TFile(gy, heap, Rewound(stream), FALSE,
                                     ndebug, "enough")
       IN /\ gy' = r.d
          /\ heap' = r.h
          /\ iores' = Outcome(r)
    /\ iopc' = "done"
    /\ UNCHANGED stream
    /\ PtrFrame

PtrNext == p_Serialize \/ p_DeSerialize_FILE \/ p_DeSerialize_TFile

InitPtrIO == PtrInit /\ SelIdle /\ ValIdle

SpecPtrIO == InitPtrIO /\ [][PtrNext]_vars

\* The read succeeded and y has x's length, null slots where x has them and
\* live pointees of equal value elsewhere.
PtrRoundTripped ==
    /\ iores.outcome = "returned" /\ iores.ret
    /\ AllLive(gx, heap) /\ AllLive(gy, heap)
    /\ Deep(gy, heap) = Deep(gx, heap)

\* C1 as stated: for every PointerVector x with any mix of null and non-null
\* slots, Serialize followed by DeSerialize of the written bytes into any y
\* returns success and leaves y with x's length, a null slot exactly where x
\* has one and a pointee of equal value at every other index.
C1_PtrRoundTripAnyLength == iopc = "done" => PtrRoundTripped

\* C1, amended: the same for every x whose length does not exceed the
\* ceiling of the entry point that reads it: UINT16_MAX for
\* DeSerialize(bool, FILE*), none for DeSerialize(TFile*).
C1_PtrRoundTripWithinCeiling ==
    (iopc = "done" /\ (iocfg.overload = "FILE" => Len(gx) <= UINT16_MAX))
        => PtrRoundTripped

\* A round trip of <<nullptr, object>> into a y that held something else.
C1_Witness ==
    /\ iopc = "done" /\ PtrRoundTripped
    /\ Len(gx) = 2
    /\ gx[1] = NullPtr /\ gx[2] # NullPtr
    /\ gy[1] = NullPtr /\ gy[2] \notin {NullPtr, gx[2]}
    /\ \E p \in 1..Len(heap) : ~heap[p].live

(***************************************************************************)
(* Skipping: a record followed by one more field is passed once by the     *)
(* full read and once by the skip, each with its own offset into the file  *)
(***************************************************************************)
\* Values of the field that follows the record.
FieldValues == {0, 16909060}

\* A reader before its first call.  stage is what it does next: "record",
\* "elements" (todo elements of an owning container remain), "field", "done".
Reader0 == [stage |-> "record", todo |-> 0, pos |-> 0, ok |-> TRUE, field |-> 0]

\* A reader after the whole record, at offset pos.
AfterRecord(rd, pos, ok) ==
    [rd EXCEPT !.stage = "field", !.pos = pos, !.ok = rd.ok /\ ok]

\* A reader after one more element, at offset pos.
AfterElement(rd, pos, ok) ==
    [rd EXCEPT !.stage = IF rd.todo = 1 THEN "field" ELSE "elements",
               !.todo = rd.todo - 1, !.pos = pos, !.ok = rd.ok /\ ok]

\* The file at a reader's offset.
At_(rd) == [bytes |-> stream, pos |-> rd.pos]

SkipFrame ==
    UNCHANGED <<selVars, ndebug, valVars, vec, alive, olast, ohalted, iocfg,
                gx>>

SkipInit ==
    /\ ndebug = FALSE
    /\ iocfg \in [pair : {"raw", "classes", "pointers"}, field : FieldValues,
                  size : 1..MaxSizeofT]
    /\ iocfg.pair # "raw" => iocfg.size = 1
    /\ gy = <<>>
    /\ \E xs \in SeqsUpTo(Slots, MaxIoLen) :
         /\ heap = IF iocfg.pair = "pointers" THEN ObjectsOf(xs) ELSE <<>>
         /\ gx \in CASE iocfg.pair = "raw" -> SeqsUpTo(RawValues, MaxIoLen)
                     [] iocfg.pair = "classes" -> SeqsUpTo(TValues, MaxIoLen)
                     [] OTHER -> {PtrsOf(xs, 0)}
         /\ (iocfg.pair # "pointers" => xs = <<>>)
    /\ vec = [c \in Names |-> <<>>]
    /\ alive = [c \in Names |-> FALSE]
    /\ olast = NoOp
    /\ ohalted = FALSE
    /\ stream = <<>>
    /\ iopc = "serialize"
    /\ iores = Reader0
    /\ skipres = Reader0

\* The writer: x.Serialize / x.SerializeClasses, then the next field
sk_Write ==
    /\ iopc = "serialize"
    /\ stream' = FWrite(CASE iocfg.pair = "raw" -> GV_Serialize(gx)
                          [] iocfg.pair = "classes" -> GV_SerializeClasses(gx)
                          [] OTHER -> PV_Serialize(gx, heap),
                        HostBytes(iocfg.field, 4))
    /\ iopc' = "read"
    /\ UNCHANGED <<heap, gy, iores, skipres>>
    /\ SkipFrame

\* y.DeSerialize(fp)
sk_DeSerialize ==
    /\ iopc = "read" /\ iocfg.pair = "raw" /\ iores.stage = "record"
    /\ LET r == GV_DeSerialize_TFile(gy, At_(iores), FALSE, ndebug, "enough")
       IN /\ gy' = r.d
          /\ iores' = AfterRecord(iores, r.pos, r.ret /\ r.outcome = "returned")
    /\ UNCHANGED <<heap, stream, iopc, skipres>>
    /\ SkipFrame

\* GenericVector<T>::SkipDeSerialize(fp)
sk_SkipDeSerialize ==
    /\ iopc = "read" /\ iocfg.pair = "raw" /\ skipres.stage = "record"
    /\ LET r == GV_SkipDeSerialize(At_(skipres), FALSE)
       IN skipres' = AfterRecord(skipres, r.pos, r.ret)
    /\ UNCHANGED <<heap, gy, stream, iopc, iores>>
    /\ SkipFrame

\* y.DeSerializeClasses(fp)
sk_DeSerializeClasses ==
    /\ iopc = "read" /\ iocfg.pair = "classes" /\ iores.stage = "record"
    /\ LET r == GV_DeSerializeClasses(gy, At_(iores), FALSE, ndebug, "enough")
       IN /\ gy' = r.d
          /\ iores' = AfterRecord(iores, r.pos, r.ret /\ r.outcome = "returned")
    /\ UNCHANGED <<heap, stream, iopc, skipres>>
    /\ SkipFrame

\* GenericVector<T>::SkipDeSerializeClasses(fp)
sk_SkipDeSerializeClasses ==
    /\ iopc = "read" /\ iocfg.pair = "classes" /\ skipres.stage = "record"
    /\ LET r == GV_SkipDeSerializeClasses(At_(skipres), FALSE)
       IN skipres' = AfterRecord(skipres, r.pos, r.ret)
    /\ UNCHANGED <<heap, gy, stream, iopc, iores>>
    /\ SkipFrame

\* The reader rd after PointerVector<T>::DeSerializeSize(fp, &size).
AfterSize(rd) ==
    LET s == DeSerializeSize(At_(rd), FALSE)
    IN [rd EXCEPT !.stage = IF s.ok /\ s.size > 0 THEN "elements" ELSE "field",
                  !.todo = s.size, !.pos = s.f.pos, !.ok = s.ok]

\* PointerVector<T>::DeSerializeSize(fp, &size), by either reader
sk_DeSerializeSize ==
    /\ iopc = "read" /\ iocfg.pair = "pointers"
    /\ \/ iores.stage = "record" /\ iores' = AfterSize(iores)
          /\ UNCHANGED skipres
       \/ skipres.stage = "record" /\ skipres' = AfterSize(skipres)
          /\ UNCHANGED iores
    /\ UNCHANGED <<heap, gy, stream, iopc>>
    /\ SkipFrame

\* y.DeSerializeElement(fp)
sk_DeSerializeElement ==
    /\ iopc = "read" /\ iocfg.pair = "pointers" /\ iores.stage = "elements"
    /\ LET r == DeSerializeElement(gy, heap, At_(iores))
       IN /\ gy' = r.d
          /\ heap' = r.h
          /\ iores' = AfterElement(iores, r.f.pos, r.ok)
    /\ UNCHANGED <<stream, iopc, skipres>>
    /\ SkipFrame

\* PointerVector<T>::DeSerializeSkip(fp)
sk_DeSerializeSkip ==
    /\ iopc = "read" /\ iocfg.pair = "pointers" /\ skipres.stage = "elements"
    /\ LET r == DeSerializeSkip(At_(skipres))
       IN skipres' = AfterElement(skipres, r.f.pos, r.ok)
    /\ UNCHANGED <<heap, gy, stream, iopc, iores>>
    /\ SkipFrame

\* The reader rd after fp->FReadEndian(&field, sizeof(field), 1).
AfterField(rd) ==
    LET r == FRead(At_(rd), 4, 1)
    IN [rd EXCEPT !.stage = "done", !.pos = r.f.pos,
                  !.ok = rd.ok /\ r.got = 1,
                  !.field = IF r.got = 1 THEN CountAt(r.bytes, FALSE) ELSE 0]

\* The client reads the field that follows the record, by either reader
sk_ReadField ==
    /\ iopc = "read"
    /\ \/ iores.stage = "field" /\ iores' = AfterField(iores)
          /\ UNCHANGED skipres
       \/ skipres.stage = "field" /\ skipres' = AfterField(skipres)
          /\ UNCHANGED iores
    /\ UNCHANGED <<heap, gy, stream, iopc>>
    /\ SkipFrame

SkipNext ==
    \/ sk_Write
    \/ sk_DeSerialize
    \/ sk_SkipDeSerialize
    \/ sk_DeSerializeClasses
    \/ sk_SkipDeSerializeClasses
    \/ sk_DeSerializeSize
    \/ sk_DeSerializeElement
    \/ sk_DeSerializeSkip
    \/ sk_ReadField

InitSkip == SkipInit /\ SelIdle /\ ValIdle

SpecSkip == InitSkip /\ [][SkipNext]_vars

\* The two readers have passed the same part of the record.
SameProgress == iores.stage = skipres.stage /\ iores.todo = skipres.todo

\* C3: on a record written by Serialize / SerializeClasses (one the full
\* read accepts), SkipDeSerialize, SkipDeSerializeClasses and DeSerializeSkip
\* succeed and leave the file at the offset DeSerialize, DeSerializeClasses
\* and DeSerializeElement leave it at, and the field read next has the same
\* value after either, the one the writer put there.
C3_SkipAdvancesAsFullRead ==
    /\ iores.ok /\ skipres.ok
    /\ SameProgress => iores.pos = skipres.pos
    /\ \A rd \in {iores, skipres} :
         rd.stage = "done" => rd.field = iocfg.field /\ rd.pos = Len(stream)

\* Both readers are past <<nullptr, object with a payload>> and the field.
C3_Witness ==
    /\ iocfg.pair = "pointers" /\ iocfg.field # 0
    /\ iores.stage = "done" /\ skipres.stage = "done"
    /\ Len(gy) = 2
    /\ gy[1] = NullPtr /\ gy[2] # NullPtr
    /\ heap[gy[2]].val # <<>>
    /\ iores.field = skipres.field /\ iores.pos = skipres.pos

(***************************************************************************)
(* Declared counts: each entry point reads a file that starts with a       *)
(* 32-bit count and goes on with a few bytes                               *)
(***************************************************************************)
MaxTail == 2

\* The count words drawn, in file order: 0, 1, UINT16_MAX, UINT16_MAX + 1,
\* limit, limit + 1, 0x7FFFFFFF, 0x80000000, 0xFFFFFFFF.
CountWords ==
    {<<0, 0, 0, 0>>, <<1, 0, 0, 0>>,
     HostBytes(UINT16_MAX, 4), HostBytes(UINT16_MAX + 1, 4),
     HostBytes(limit, 4), HostBytes(limit + 1, 4),
     <<255, 255, 255, 127>>, <<0, 0, 0, 128>>, <<255, 255, 255, 255>>}

\* The count the reader of the run sees, as the int32_t it reads as.
Declared == CountAt(iocfg.word, iocfg.swap)

LimitFrame ==
    UNCHANGED <<selVars, ndebug, valVars, vec, alive, olast, ohalted, iocfg, gx,
                stream, skipres>>

LimitInit ==
    /\ ndebug \in BOOLEAN
    /\ iocfg \in [pair : {"raw", "classes", "pointers"},
                  overload : {"FILE", "TFile"},
                  word : CountWords, swap : BOOLEAN,
                  mem : {"enough", "exhausted"}, size : 1..MaxSizeofT]
    /\ iocfg.pair # "raw" => iocfg.size = 1
    /\ \E tail \in SeqsUpTo({0, 1}, MaxTail) : stream = iocfg.word \o tail
    /\ gx = <<>>
    /\ \E ys \in {<<>>, <<<<TDefault>>>>} :
         /\ iocfg.pair # "pointers" => ys = <<>>
         /\ heap = ObjectsOf(ys)
         /\ gy \in CASE iocfg.pair = "raw" -> {<<>>, <<1>>, <<1, 1>>}
                     [] iocfg.pair = "classes" -> {<<>>, <<TDefault>>}
                     [] OTHER -> {PtrsOf(ys, 0)}
    /\ vec = [c \in Names |-> <<>>]
    /\ alive = [c \in Names |-> FALSE]
    /\ olast = NoOp
    /\ ohalted = FALSE
    /\ iopc = "deserialize"
    /\ iores = NoOp
    /\ skipres = NoOp

\* y.DeSerialize(swap, fp) on a FILE*
l_DeSerialize_FILE ==
    /\ iopc = "deserialize" /\ iocfg.pair = "raw" /\ iocfg.overload = "FILE"
    /\ LET r == GV_DeSerialize_FILE(gy, Rewound(stream), iocfg.swap, ndebug,
                                    iocfg.mem)
       IN gy' = r.d /\ iores' = Outcome(r)
    /\ iopc' = "done"
    /\ UNCHANGED heap
    /\ LimitFrame

\* y.DeSerialize(fp) on a TFile*
l_DeSerialize_TFile ==
    /\ iopc = "deserialize" /\ iocfg.pair = "raw" /\ iocfg.overload = "TFile"
    /\ LET r == GV_DeSerialize_TFile(gy, Rewound(stream), iocfg.swap, ndebug,
                                     iocfg.mem)
       IN gy' = r.d /\ iores' = Outcome(r)
    /\ iopc' = "done"
    /\ UNCHANGED heap
    /\ LimitFrame

\* y.DeSerializeClasses(swap, fp) on a FILE*
l_DeSerializeClasses_FILE ==
    /\ iopc = "deserialize" /\ iocfg.pair = "classes" /\ iocfg.overload = "FILE"
    /\ LET r == GV_DeSerializeClasses(gy, Rewound(stream), iocfg.swap, ndebug,
                                      iocfg.mem)
       IN gy' = r.d /\ iores' = Outcome(r)
    /\ iopc' = "done"
    /\ UNCHANGED heap
    /\ LimitFrame

\* y.DeSerializeClasses(fp) on a TFile*
l_DeSerializeClasses_TFile ==
    /\ iopc = "deserialize" /\ iocfg.pair = "classes" /\ iocfg.overload = "TFile"
    /\ LET r == GV_DeSerializeClasses(gy, Rewound(stream), iocfg.swap, ndebug,
                                      iocfg.mem)
       IN gy' = r.d /\ iores' = Outcome(r)
    /\ iopc' = "done"
    /\ UNCHANGED heap
    /\ LimitFrame

\* PointerVector y.DeSerialize(swap, fp) on a FILE*
l_PV_DeSerialize_FILE ==
    /\ iopc = "deserialize" /\ iocfg.pair = "pointers" /\ iocfg.overload = "FILE"
    /\ LET r == PV_DeSerialize_FILE(gy, heap, Rewound(stream),
                                    iocfg.swap, ndebug, iocfg.mem)
       IN /\ gy' = r.d
          /\ heap' = r.h
          /\ iores' = Outcome(r)
    /\ iopc' = "done"
    /\ LimitFrame

\* PointerVector y.DeSerialize(fp) on a TFile*
l_PV_DeSerialize_TFile ==
    /\ iopc = "deserialize" /\ iocfg.pair = "pointers" /\ iocfg.overload = "TFile"
    /\ LET r == PV_DeSerialize_TFile(gy, heap, Rewound(stream),
                                     iocfg.swap, ndebug, iocfg.mem)
       IN /\ gy' = r.d
          /\ heap' = r.h
          /\ iores' = Outcome(r)
    /\ iopc' = "done"
    /\ LimitFrame

LimitNext ==
    \/ l_DeSerialize_FILE
    \/ l_DeSerialize_TFile
    \/ l_DeSerializeClasses_FILE
    \/ l_DeSerializeClasses_TFile
    \/ l_PV_DeSerialize_FILE
    \/ l_PV_DeSerialize_TFile

InitLimit == LimitInit /\ SelIdle /\ ValIdle

SpecLimit == InitLimit /\ [][LimitNext]_vars

\* C4: whichever entry point reads it (DeSerialize, DeSerializeClasses,
\* PointerVector::DeSerialize, FILE or TFile), a declared count above the
\* ceiling (taken as the largest one the code uses, 50000000, so that
\* 0xFFFFFFFF is above it) makes the call fail, by returning false or at the
\* assert on the count, before any resize or reserve is called.
C4_OversizedCountRejectedBeforeAllocation ==
    (iopc = "done" /\ UnsignedGreater(Declared, limit)) =>
        /\ ~iores.ret
        /\ iores.outcome \in {"returned", "assert"}
        /\ iores.allocs = <<>>

(***************************************************************************)
(* Sorted value container: binary_search, bool_binary_search and           *)
(* compact_sorted on a vector that sort() left in ascending order          *)
(***************************************************************************)
MaxSortLen == 4
MaxSortVal == 3

SortValues == 1..MaxSortVal

\* Targets: every value, one below all of them and one above.
SortTargets == 0..(MaxSortVal + 1)

\* Ascending order, duplicates allowed: what sort() leaves.
IsAscending(d) == \A i \in 1..(Len(d) - 1) : d[i] <= d[i + 1]

\* The loop of binary_search with the test data()[middle] >= target.
RECURSIVE BinarySearchLoop_GreaterEq(_, _, _, _)
BinarySearchLoop_GreaterEq(d, target, bottom, top) ==
    IF top - bottom > 1
    THEN LET middle == (bottom + top) \div 2
         IN IF At(d, middle) >= target
            THEN BinarySearchLoop_GreaterEq(d, target, bottom, middle)
            ELSE BinarySearchLoop_GreaterEq(d, target, middle, top)
    ELSE bottom

\* The loop of binary_search: while (top - bottom > 1).
RECURSIVE BinarySearchLoop(_, _, _, _)
BinarySearchLoop(d, target, bottom, top) ==
    IF top - bottom > 1
    THEN LET middle == (bottom + top) \div 2
         IN IF At(d, middle) > target
            THEN BinarySearchLoop(d, target, bottom, middle)
            ELSE BinarySearchLoop(d, target, middle, top)
    ELSE bottom

\* GenericVector::binary_search(const T& target) const
binary_search(d, target) == BinarySearchLoop(d, target, 0, Len(d))

\* GenericVector::bool_binary_search(const T& target) const
bool_binary_search(d, target) ==
    LET index == binary_search(d, target)
    IN IF index >= Len(d) THEN FALSE ELSE At(d, index) = target

\* The loop of compact_sorted from index i on, last_write being the index of
\* the last element kept.
RECURSIVE CompactSortedLoop(_, _, _)
CompactSortedLoop(d, last_write, i) ==
    IF i < Len(d)
    THEN IF At(d, last_write) # At(d, i)
         THEN CompactSortedLoop([d EXCEPT ![last_write + 2] = At(d, i)],
                                last_write + 1, i + 1)
         ELSE CompactSortedLoop(d, last_write, i + 1)
    ELSE [d |-> d, last_write |-> last_write]

\* compact_sorted with the final resize one element short.
compact_sorted_ResizeShort(d) ==
    IF Len(d) = 0 THEN d
    ELSE LET r == CompactSortedLoop(d, 0, 1)
         IN resize(r.d, r.last_write, ValDefault)

\* GenericVector::compact_sorted()
compact_sorted(d) ==
    IF Len(d) = 0 THEN d
    ELSE LET r == CompactSortedLoop(d, 0, 1)
         IN resize(r.d, r.last_write + 1, ValDefault)

SortFrame == UNCHANGED <<selVars, ndebug, compare_cb_, vhalted, ownVars, ioVars>>

SortInit ==
    /\ ndebug = FALSE
    /\ vdata \in {d \in SeqsUpTo(SortValues, MaxSortLen) : IsAscending(d)}
    /\ compare_cb_ = "nullptr"
    /\ vlast = NoOp
    /\ vhalted = FALSE

\* binary_search(target)
s_binary_search ==
    /\ \E target \in SortTargets :
         vlast' = [op |-> "binary_search", arg |-> target, pre |-> vdata,
                   ret |-> binary_search(vdata, target)]
    /\ UNCHANGED vdata
    /\ SortFrame

\* bool_binary_search(target)
s_bool_binary_search ==
    /\ \E target \in SortTargets :
         vlast' = [op |-> "bool_binary_search", arg |-> target, pre |-> vdata,
                   ret |-> bool_binary_search(vdata, target)]
    /\ UNCHANGED vdata
    /\ SortFrame

\* compact_sorted()
s_compact_sorted ==
    /\ vdata' = compact_sorted(vdata)
    /\ vlast' = [op |-> "compact_sorted", pre |-> vdata]
    /\ SortFrame

SortNext == s_binary_search \/ s_bool_binary_search \/ s_compact_sorted

InitSorted == SortInit /\ SelIdle /\ OwnIdle /\ IoIdle

SpecSorted == InitSorted /\ [][SortNext]_vars

\* C11: on a container in ascending order (duplicates allowed),
\* binary_search(target) returns the largest index whose element is not
\* greater than target, or 0 when every element is greater or the container
\* is empty, and leaves the container as it was.
C11_BinarySearchLargestNotGreater ==
    (vlast.op = "binary_search" /\ IsAscending(vlast.pre)) =>
        LET NotGreater == {i \in 0..(Len(vlast.pre) - 1) :
                              ~(At(vlast.pre, i) > vlast.arg)}
        IN /\ vdata = vlast.pre
           /\ IF NotGreater = {} THEN vlast.ret = 0
              ELSE /\ vlast.ret \in NotGreater
                   /\ \A i \in NotGreater : i <= vlast.ret

\* binary_search lands on the last element of a run of equal elements that
\* is followed by a greater one.
C11_Witness ==
    /\ vlast.op = "binary_search"
    /\ vlast.ret >= 1 /\ vlast.ret < Len(vdata) - 1
    /\ At(vdata, vlast.ret) = vlast.arg
    /\ At(vdata, vlast.ret - 1) = vlast.arg

\* C12: on a container in ascending order, compact_sorted() leaves one
\* element per run of equal elements, in the original order, the length
\* being the number of distinct values; an empty container stays empty.
C12_CompactSortedOnePerRun ==
    (vlast.op = "compact_sorted" /\ IsAscending(vlast.pre)) =>
        /\ Len(vdata) = Cardinality(Range(vlast.pre))
        /\ Range(vdata) = Range(vlast.pre)
        /\ \A i \in 1..(Len(vdata) - 1) : vdata[i] < vdata[i + 1]

\* compact_sorted has shrunk a vector with two runs, one of them longer
\* than one element.
C12_Witness ==
    /\ vlast.op = "compact_sorted"
    /\ Len(vlast.pre) >= 3 /\ Len(vdata) = 2
    /\ vlast.pre[1] = vlast.pre[2]

(***************************************************************************)
(* Partial selection: the client reads the count of an owning record and   *)
(* then, element by element, either reads the element into y (gy) or       *)
(* skips it                                                                *)
(***************************************************************************)
\* The reader before its first call; taken lists the indices of the record
\* read with DeSerializeElement so far.
PartialReader0 ==
    [stage |-> "record", todo |-> 0, pos |-> 0, ok |-> TRUE, field |-> 0,
     taken |-> <<>>]

PartialFrame ==
    UNCHANGED <<selVars, ndebug, valVars, vec, alive, olast, ohalted, iocfg,
                gx, skipres>>

PartialInit ==
    /\ ndebug = FALSE
    /\ \E xs \in SeqsUpTo(Slots, MaxIoLen), ys \in SeqsUpTo(Slots, 1) :
         /\ heap = ObjectsOf(xs) \o ObjectsOf(ys)
         /\ gx = PtrsOf(xs, 0)
         /\ gy = PtrsOf(ys, Len(ObjectsOf(xs)))
    /\ iocfg = [pair |-> "pointers", field |-> 16909060, prev |-> gy]
    /\ vec = [c \in Names |-> <<>>]
    /\ alive = [c \in Names |-> FALSE]
    /\ olast = NoOp
    /\ ohalted = FALSE
    /\ stream = <<>>
    /\ iopc = "serialize"
    /\ iores = PartialReader0
    /\ skipres = NoOp

\* The writer: x.Serialize(fp), then the next field
pa_Write ==
    /\ iopc = "serialize"
    /\ stream' = FWrite(PV_Serialize(gx, heap), HostBytes(iocfg.field, 4))
    /\ iopc' = "read"
    /\ UNCHANGED <<heap, gy, iores>>
    /\ PartialFrame

\* PointerVector<T>::DeSerializeSize(fp, &size)
pa_DeSerializeSize ==
    /\ iopc = "read" /\ iores.stage = "record"
    /\ iores' = AfterSize(iores)
    /\ UNCHANGED <<heap, gy, stream, iopc>>
    /\ PartialFrame

\* y.DeSerializeElement(fp)
pa_DeSerializeElement ==
    /\ iopc = "read" /\ iores.stage = "elements"
    /\ LET r == DeSerializeElement(gy, heap, At_(iores))
       IN /\ gy' = r.d
          /\ heap' = r.h
          /\ iores' = [AfterElement(iores, r.f.pos, r.ok) EXCEPT
                          !.taken = Append(@, Len(gx) - iores.todo)]
    /\ UNCHANGED <<stream, iopc>>
    /\ PartialFrame

\* PointerVector<T>::DeSerializeSkip(fp)
pa_DeSerializeSkip ==
    /\ iopc = "read" /\ iores.stage = "elements"
    /\ LET r == DeSerializeSkip(At_(iores))
       IN iores' = AfterElement(iores, r.f.pos, r.ok)
    /\ UNCHANGED <<heap, gy, stream, iopc>>
    /\ PartialFrame

PartialNext ==
    \/ pa_Write
    \/ pa_DeSerializeSize
    \/ pa_DeSerializeElement
    \/ pa_DeSerializeSkip

InitPartial == PartialInit /\ SelIdle /\ ValIdle

SpecPartial == InitPartial /\ [][PartialNext]_vars

\* The slots of x at the given indices (0-based), in that order.
Picked(taken) == [k \in 1..Len(taken) |-> Deep(gx, heap)[taken[k] + 1]]

\* C13: after DeSerializeSize has returned true with count n on a record
\* written by Serialize, every call of DeSerializeElement or DeSerializeSkip,
\* in any mix, succeeds; the elements y has gained are those read with
\* DeSerializeElement, in stream order, null slots included; and after
\* exactly n calls the file is at the end of the record.
C13_PartialSelection ==
    (iopc = "read" /\ iores.stage # "record") =>
        /\ iores.ok
        /\ iores.todo + Len(iores.taken) <= Len(gx)
        /\ AllLive(gy, heap)
        /\ SubSeq(gy, 1, Len(iocfg.prev)) = iocfg.prev
        /\ Deep(gy, heap) = Deep(iocfg.prev, heap) \o Picked(iores.taken)
        /\ iores.stage = "field" =>
             /\ iores.todo = 0
             /\ iores.pos = Len(stream) - 4

\* Of <<object, nullptr>> or <<nullptr, object>> one element was read and
\* the other skipped, and the reader is at the end of the record.
C13_Witness ==
    /\ iopc = "read" /\ iores.stage = "field"
    /\ Len(gx) = 2 /\ Len(iores.taken) = 1
    /\ \E i \in 1..2 : gx[i] = NullPtr
    /\ \E i \in 1..2 : gx[i] # NullPtr /\ heap[gx[i]].val # <<>>
    /\ iores.pos = Len(stream) - 4

\* ---------------------------------------------------------------------
\* DeSerializeClasses on a damaged record: x.SerializeClasses writes the
\* record, the file loses its tail, y with any previous content reads it.

\* The number of leading elements of x whose encodings lie whole within the
\* first avail bytes of x's record: the index of the first element whose
\* DeSerialize fails, or Len(x) if none does.
FirstBroken(x, avail) ==
    CHOOSE m \in 0..Len(x) :
        /\ Len(GV_SerializeClasses(SubSeq(x, 1, m))) <= avail
        /\ \A k \in (m + 1)..Len(x) :
               Len(GV_SerializeClasses(SubSeq(x, 1, k))) > avail

ClassFailFrame ==
    UNCHANGED <<selVars, ndebug, valVars, ownVars, iocfg, gx, skipres>>

ClassFailInit ==
    /\ ndebug \in BOOLEAN
    /\ iocfg \in [pair : {"classes"}, overload : {"FILE", "TFile"}, size : {1}]
    /\ gx \in SeqsUpTo(TValues, MaxIoLen)
    /\ gy \in PrevOf(TValues)
    /\ stream = <<>>
    /\ iopc = "serialize"
    /\ iores = NoOp
    /\ skipres = NoOp

\* x.SerializeClasses(fp)
cf_SerializeClasses ==
    /\ iopc = "serialize"
    /\ stream' = GV_SerializeClasses(gx)
    /\ iopc' = "damage"
    /\ UNCHANGED <<gy, iores>>
    /\ ClassFailFrame

\* The file is cut after its count, anywhere up to its end.
cf_Damage ==
    /\ iopc = "damage"
    /\ \E keep \in 4..Len(stream) : stream' = SubSeq(stream, 1, keep)
    /\ iopc' = "deserialize"
    /\ UNCHANGED <<gy, iores>>
    /\ ClassFailFrame

\* y.DeSerializeClasses(false, fp) on a FILE*
cf_DeSerializeClasses_FILE ==
    /\ iopc = "deserialize" /\ iocfg.overload = "FILE"
    /\ LET r == GV_DeSerializeClasses(gy, Rewound(stream), FALSE, ndebug, "enough")
       IN /\ gy' = r.d
          /\ iores' = [ret |-> r.ret, outcome |-> r.outcome, calls |-> r.calls,
                       pre |-> gy]
    /\ iopc' = "done"
    /\ UNCHANGED stream
    /\ ClassFailFrame

\* y.DeSerializeClasses(fp) on a TFile* of the same byte order
cf_DeSerializeClasses_TFile ==
    /\ iopc = "deserialize" /\ iocfg.overload = "TFile"
    /\ LET r == GV_DeSerializeClasses(gy, Rewound(stream), FALSE, ndebug, "enough")
       IN /\ gy' = r.d
          /\ iores' = [ret |-> r.ret, outcome |-> r.outcome, calls |-> r.calls,
                       pre |-> gy]
    /\ iopc' = "done"
    /\ UNCHANGED stream
    /\ ClassFailFrame

ClassFailNext ==
    \/ cf_SerializeClasses
    \/ cf_Damage
    \/ cf_DeSerializeClasses_FILE
    \/ cf_DeSerializeClasses_TFile

InitClassFail == ClassFailInit /\ SelIdle /\ ValIdle /\ OwnIdle

SpecClassFail == InitClassFail /\ [][ClassFailNext]_vars

\* The read of the damaged record is over and an element's DeSerialize
\* failed.
ElementFailed ==
    /\ iopc = "done" /\ iores.outcome = "returned"
    /\ FirstBroken(gx, Len(stream)) < Len(gx)

\* C14: when the element deserializer first fails at index j of a record of
\* declared count n, read into a container with any previous content,
\* DeSerializeClasses returns failure, has invoked no deserializer for an
\* index greater than j, leaves the container with length n, and every
\* element at an index greater than j equals the default-constructed value.
C14_FailureLeavesDefaultTail ==
    ElementFailed =>
        LET j == FirstBroken(gx, Len(stream))
        IN /\ ~iores.ret
           /\ iores.calls = j + 1
           /\ Len(gy) = Len(gx)
           /\ \A i \in (j + 1)..(Len(gy) - 1) : At(gy, i) = TDefault

\* ---------------------------------------------------------------------
\* get, set and remove with any index, in range or not, on GenericVector<T>
\* and on PointerVector<T>.

\* The condition of assert(index >= 0 && index < size()).
IndexOk(d, index) == index >= 0 /\ index < Len(d)

\* What an access to data()[index] outside the vector may do: <<>> is a
\* crash, <<v>> is the access going through and, for a read, yielding v.
OutOfBounds(S) == {<<>>} \cup {<<v>> : v \in S}

\* GenericVector::get(int index).  access lists the indices data() was
\* indexed with.
GV_get(d, index, nd, ub) ==
    IF ~nd /\ ~IndexOk(d, index)
    THEN [outcome |-> "assert", ret |-> <<>>, d |-> d, access |-> <<>>]
    ELSE IF IndexOk(d, index)
    THEN [outcome |-> "returned", ret |-> <<At(d, index)>>, d |-> d,
          access |-> <<index>>]
    ELSE IF ub = <<>>
    THEN [outcome |-> "crash", ret |-> <<>>, d |-> d, access |-> <<index>>]
    ELSE [outcome |-> "returned", ret |-> ub, d |-> d, access |-> <<index>>]

\* GenericVector::set(const T& t, int index)
GV_set(d, t, index, nd, ub) ==
    IF ~nd /\ ~IndexOk(d, index)
    THEN [outcome |-> "assert", ret |-> <<>>, d |-> d, access |-> <<>>]
    ELSE IF IndexOk(d, index)
    THEN [outcome |-> "returned", ret |-> <<>>,
          d |-> [d EXCEPT ![index + 1] = t], access |-> <<index>>]
    ELSE IF ub = <<>>
    THEN [outcome |-> "crash", ret |-> <<>>, d |-> d, access |-> <<index>>]
    ELSE [outcome |-> "returned", ret |-> <<>>, d |-> d, access |-> <<index>>]

\* The indices the shift loop of GenericVector::remove writes.
ShiftWrites(d, index) ==
    [k \in 1..(IF index < Len(d) - 1 THEN Len(d) - 1 - index ELSE 0) |->
        index + k - 1]

\* GenericVector::remove(int index) with any index.  Without the assertion
\* an index at or beyond size() skips the loop and resize(size() - 1) drops
\* the last element (resize(-1) on an empty vector throws); a negative index
\* makes the loop write before the storage and then shift every element.
GV_remove_any(d, index, fill, nd, ub) ==
    IF ~nd /\ ~IndexOk(d, index)
    THEN [outcome |-> "assert", ret |-> <<>>, d |-> d, access |-> <<>>]
    ELSE IF IndexOk(d, index)
    THEN [outcome |-> "returned", ret |-> <<>>, d |-> GV_remove(d, index, fill),
          access |-> ShiftWrites(d, index)]
    ELSE IF index < Len(d) - 1 /\ ub = <<>>
    THEN [outcome |-> "crash", ret |-> <<>>, d |-> d, access |-> <<index>>]
    ELSE IF Len(d) = 0
    THEN [outcome |-> "length_error", ret |-> <<>>, d |-> d,
          access |-> ShiftWrites(d, index)]
    ELSE [outcome |-> "returned", ret |-> <<>>,
          d |-> resize(RemoveShift(d, IF index < 0 THEN 0 ELSE index),
                       Len(d) - 1, fill),
          access |-> ShiftWrites(d, index)]

\* PointerVector::remove(int index) with any index: delete data()[index],
\* then GenericVector<T*>::remove(index).  Outside the vector the read of
\* data()[index] is undefined: stale is what it does, a crash or some
\* pointer, which is then deleted.
PV_remove_any(d, h, index, nd, stale, ub) ==
    IF IndexOk(d, index)
    THEN LET r == PV_remove(d, h, index)
         IN [outcome |-> "returned", d |-> r.d, h |-> r.h,
             access |-> <<index>> \o ShiftWrites(d, index)]
    ELSE IF stale = <<>>
    THEN [outcome |-> "crash", d |-> d, h |-> h, access |-> <<index>>]
    ELSE LET g == GV_remove_any(d, index, NullPtr, nd, ub)
         IN [outcome |-> g.outcome, d |-> g.d, h |-> Delete(h, stale[1]),
             access |-> <<index>> \o g.access]

IndexFrame ==
    UNCHANGED <<selVars, ndebug, compare_cb_, alive, ioVars>>

\* Either the value container or the owning container A is exercised.
IndexInit ==
    /\ ndebug \in BOOLEAN
    /\ vdata = <<>> /\ compare_cb_ = "nullptr" /\ vlast = NoOp /\ vhalted = FALSE
    /\ heap = <<>> /\ vec = [c \in Names |-> <<>>]
    /\ alive \in {[c \in Names |-> c = "A" /\ b] : b \in BOOLEAN}
    /\ olast = NoOp /\ ohalted = FALSE

\* The indices drawn: every one in range, one below, two at or above size().
Indices(d) == (-1)..(Len(d) + 1)

\* v.push_back(t)
ix_push_back ==
    /\ ~alive["A"] /\ ~vhalted
    /\ Len(vdata) < MaxValLen
    /\ \E t \in ValValues :
         /\ vdata' = push_back(vdata, t)
         /\ vlast' = [op |-> "push_back", arg |-> t, pre |-> vdata]
    /\ UNCHANGED <<vhalted, heap, vec, olast, ohalted>>
    /\ IndexFrame

\* v.get(index)
ix_get ==
    /\ ~alive["A"] /\ ~vhalted
    /\ \E index \in Indices(vdata), ub \in OutOfBounds(ValValues) :
         LET r == GV_get(vdata, index, ndebug, ub)
         IN /\ vdata' = r.d
            /\ vhalted' = (r.outcome # "returned")
            /\ vlast' = [op |-> "get", arg |-> index, pre |-> vdata,
                         outcome |-> r.outcome, ret |-> r.ret,
                         access |-> r.access]
    /\ UNCHANGED <<heap, vec, olast, ohalted>>
    /\ IndexFrame

\* v.set(t, index)
ix_set ==
    /\ ~alive["A"] /\ ~vhalted
    /\ \E index \in Indices(vdata), t \in ValValues,
          ub \in OutOfBounds({ValDefault}) :
         LET r == GV_set(vdata, t, index, ndebug, ub)
         IN /\ vdata' = r.d
            /\ vhalted' = (r.outcome # "returned")
            /\ vlast' = [op |-> "set", arg |-> index, val |-> t, pre |-> vdata,
                         outcome |-> r.outcome, ret |-> r.ret,
                         access |-> r.access]
    /\ UNCHANGED <<heap, vec, olast, ohalted>>
    /\ IndexFrame

\* v.remove(index)
ix_remove ==
    /\ ~alive["A"] /\ ~vhalted
    /\ \E index \in Indices(vdata), ub \in OutOfBounds({ValDefault}) :
         LET r == GV_remove_any(vdata, index, ValDefault, ndebug, ub)
         IN /\ vdata' = r.d
            /\ vhalted' = (r.outcome # "returned")
            /\ vlast' = [op |-> "remove", arg |-> index, pre |-> vdata,
                         outcome |-> r.outcome, ret |-> r.ret,
                         access |-> r.access]
    /\ UNCHANGED <<heap, vec, olast, ohalted>>
    /\ IndexFrame

\* A.push_back(new T(v))
ix_pv_push_back_new_T ==
    /\ alive["A"] /\ ~ohalted
    /\ Len(heap) < MaxAddr /\ Len(vec["A"]) < MaxOwnLen
    /\ \E v \in OwnValues :
         /\ heap' = New(heap, v)
         /\ vec' = [vec EXCEPT !["A"] = push_back(@, Len(heap) + 1)]
         /\ olast' = [op |-> "push_back", c |-> "A"]
    /\ UNCHANGED <<vdata, vlast, vhalted, ohalted>>
    /\ IndexFrame

\* A.get(index): GenericVector<T*>::get
ix_pv_get ==
    /\ alive["A"] /\ ~ohalted
    /\ \E index \in Indices(vec["A"]),
          ub \in OutOfBounds({NullPtr} \cup (1..Len(heap))) :
         LET r == GV_get(vec["A"], index, ndebug, ub)
         IN /\ vec' = [vec EXCEPT !["A"] = r.d]
            /\ ohalted' = (r.outcome # "returned")
            /\ olast' = [op |-> "get", c |-> "A", arg |-> index,
                         pre |-> vec["A"], preheap |-> heap,
                         outcome |-> r.outcome, access |-> r.access]
    /\ UNCHANGED <<vdata, vlast, vhalted, heap>>
    /\ IndexFrame

\* A.set(nullptr, index): GenericVector<T*>::set
ix_pv_set ==
    /\ alive["A"] /\ ~ohalted
    /\ \E index \in Indices(vec["A"]), ub \in OutOfBounds({NullPtr}) :
         LET r == GV_set(vec["A"], NullPtr, index, ndebug, ub)
         IN /\ vec' = [vec EXCEPT !["A"] = r.d]
            /\ ohalted' = (r.outcome # "returned")
            /\ olast' = [op |-> "set", c |-> "A", arg |-> index,
                         pre |-> vec["A"], preheap |-> heap,
                         outcome |-> r.outcome, access |-> r.access]
    /\ UNCHANGED <<vdata, vlast, vhalted, heap>>
    /\ IndexFrame

\* A.remove(index): PointerVector::remove
ix_pv_remove ==
    /\ alive["A"] /\ ~ohalted
    /\ \E index \in Indices(vec["A"]),
          stale \in OutOfBounds({NullPtr} \cup (1..Len(heap))),
          ub \in OutOfBounds({NullPtr}) :
         LET r == PV_remove_any(vec["A"], heap, index, ndebug, stale, ub)
         IN /\ vec' = [vec EXCEPT !["A"] = r.d]
            /\ heap' = r.h
            /\ ohalted' = (r.outcome # "returned")
            /\ olast' = [op |-> "remove", c |-> "A", arg |-> index,
                         pre |-> vec["A"], preheap |-> heap,
                         outcome |-> r.outcome, access |-> r.access]
    /\ UNCHANGED <<vdata, vlast, vhalted>>
    /\ IndexFrame

IndexNext ==
    \/ ix_push_back
    \/ ix_get
    \/ ix_set
    \/ ix_remove
    \/ ix_pv_push_back_new_T
    \/ ix_pv_get
    \/ ix_pv_set
    \/ ix_pv_remove

InitIndex == IndexInit /\ SelIdle /\ IoIdle

SpecIndex == InitIndex /\ [][IndexNext]_vars

\* The last call on the value container was get, set or remove with an
\* index outside the vector.
ValOutOfRange ==
    vlast.op \in {"get", "set", "remove"} /\ ~IndexOk(vlast.pre, vlast.arg)

\* The same for the owning container.
OwnOutOfRange ==
    olast.op \in {"get", "set", "remove"} /\ ~IndexOk(olast.pre, olast.arg)

\* C15: get(i), set(v, i) and remove(i), on the value container and on the
\* owning one, called with i < 0 or i >= length fail by assertion and never
\* clamp: no element has been read or written, no pointee has been deleted
\* and the container is as it was.
C15_OutOfRangeFailsFatally ==
    /\ ValOutOfRange =>
           /\ vlast.outcome = "assert"
           /\ vlast.access = <<>>
           /\ vdata = vlast.pre
    /\ OwnOutOfRange =>
           /\ olast.outcome = "assert"
           /\ olast.access = <<>>
           /\ vec["A"] = olast.pre
           /\ heap = olast.preheap

\* ---------------------------------------------------------------------
\* Ownership under every owning-container operation, move included.

\* GenericVector::move(GenericVector<T>* from): *this = std::move(*from),
\* the move assignment of std::vector<T*>.  The slots this held are dropped
\* without a delete, this takes from's slots and from is left empty; moving
\* a vector onto itself leaves it empty.
GV_move(d, from, self) ==
    IF self THEN [d |-> <<>>, from |-> <<>>] ELSE [d |-> from, from |-> <<>>]

\* dst.move(&src)
o_move ==
    /\ ~ohalted
    /\ \E dst \in Names, src \in Names :
         /\ alive[dst] /\ alive[src]
         /\ LET r == GV_move(vec[dst], vec[src], dst = src)
            IN vec' = [c \in Names |-> IF c = dst THEN r.d
                                       ELSE IF c = src THEN r.from
                                       ELSE vec[c]]
         /\ olast' = [op |-> "move", c |-> dst, src |-> src]
    /\ UNCHANGED <<heap, alive, ohalted>>
    /\ OwnFrame

OwnMoveNext ==
    \/ o_construct
    \/ o_push_back_new_T
    \/ o_push_back_nullptr
    \/ o_remove
    \/ o_truncate
    \/ o_compact
    \/ o_clear
    \/ o_copy_construct
    \/ o_assign
    \/ o_destroy
    \/ o_move

SpecOwnMove == InitOwn /\ [][OwnMoveNext]_vars

\* The slots of the containers: <<c, i>> is slot i of container c.
SlotsOf == UNION {{<<c, i>> : i \in 1..Len(vec[c])} : c \in Names}

HeldAt(s) == vec[s[1]][s[2]]

\* No raw pointer is held by two slots, of one container or of two.
NoSharedPointee ==
    \A s \in SlotsOf, t \in SlotsOf :
        (s # t /\ HeldAt(s) # NullPtr) => HeldAt(s) # HeldAt(t)

\* No slot holds a pointer to a deleted pointee.
NoDanglingSlot ==
    \A s \in SlotsOf : HeldAt(s) # NullPtr => heap[HeldAt(s)].live

\* No pointee has been deleted more than once.
NoDoubleDelete == \A q \in 1..Len(heap) : heap[q].dels <= 1

\* clear() and the destructor delete every non-null pointee of the container
\* exactly once, and nothing else.
ClearDeletesEachOnce ==
    olast'.op \in {"clear", "destroy"} =>
        /\ \A q \in Range(vec[olast'.c]) \ {NullPtr} : DeletedOnceByStep(q)
        /\ \A q \in (1..Len(heap)) \ Range(vec[olast'.c]) : heap'[q] = heap[q]
        /\ vec'[olast'.c] = <<>>

\* C16: in every state reachable by owning-container operations (push_back
\* of a fresh pointee, remove, truncate, compact, clear, copy-construction,
\* copy-assignment, move, destruction) no raw pointer is held by two slots,
\* no slot holds a pointer to a deleted pointee and no pointee has been
\* deleted more than once; clear and destruction delete each non-null
\* pointee of the container exactly once.
C16_SingleOwnership ==
    /\ [](NoSharedPointee /\ NoDanglingSlot /\ NoDoubleDelete)
    /\ [][ClearDeletesEachOnce]_vars

\* Both containers hold live pointees after a copy, a pointee of one of them
\* has since been deleted, and a container that held a pointee has just been
\* destroyed or moved from.
C16_Witness ==
    /\ olast.op \in {"destroy", "move"}
    /\ \E q \in 1..Len(heap) : ~heap[q].live
    /\ \E c \in Names : \E i \in 1..Len(vec[c]) : vec[c][i] # NullPtr
    /\ Len(heap) = MaxAddr

\* ---------------------------------------------------------------------
\* The base cases of the recursive choose_nth_item, under SpecSelect.

\* The invocation that returned was one on a range of at most two elements
\* (an invocation that partitions returns with a longer range).
ReturnedFromBaseCase == spc = "done" /\ end - start <= 2

\* A range of zero or one element returns start; of two different elements,
\* the smaller one's index for a target at start and the larger one's
\* otherwise.
BaseCaseByComparison ==
    /\ end - start <= 1 => sret = start
    /\ (end - start = 2 /\ At(sdata, start) < At(sdata, start + 1)) =>
           sret = (IF target_index > start THEN start + 1 ELSE start)
    /\ (end - start = 2 /\ At(sdata, start) > At(sdata, start + 1)) =>
           sret = (IF target_index > start THEN start ELSE start + 1)

\* C17 (as stated): in the recursive choose_nth_item an active range of zero
\* or one element returns start, a range of two elements is resolved by
\* direct comparison, and when the two compare equal the returned index is
\* start if k <= start and start + 1 if k > start.
C17_TieReturnsTargetSide ==
    ReturnedFromBaseCase =>
        /\ BaseCaseByComparison
        /\ (end - start = 2 /\ At(sdata, start) = At(sdata, start + 1)) =>
               sret = (IF target_index <= start THEN start ELSE start + 1)

\* C17 (amended): as above, but when the two elements compare equal the
\* returned index is start + 1 if k <= start and start if k > start.
C17_TieReturnsOtherSide ==
    ReturnedFromBaseCase =>
        /\ BaseCaseByComparison
        /\ (end - start = 2 /\ At(sdata, start) = At(sdata, start + 1)) =>
               sret = (IF target_index <= start THEN start + 1 ELSE start)

\* A recursive invocation on two equal elements, not at the front of the
\* vector, has returned for the target at start + 1.
C17_Witness ==
    /\ spc = "done" /\ end - start = 2 /\ depth >= 2
    /\ start > 0
    /\ At(sdata, start) = At(sdata, start + 1)
    /\ target_index = start + 1
    /\ sret = start
====
